---- MODULE Spec2Model ----
(***************************************************************************)
(* Model of the UGREEN LED disk monitor (package diskmon) and of the LED   *)
(* and configuration helpers it uses.  Strings that the program formats,   *)
(* trims, splits or compares are sequences of one-character strings, so    *)
(* that formatting and parsing are computed and not assumed.               *)
(***************************************************************************)
EXTENDS Integers, Sequences, FiniteSets, TLC

\* ------------------------------------------------------- string helpers
IsSpace(c) == c \in {" ", "\t", "\n"}

IsDigit(c) == c \in {"0", "1", "2", "3", "4", "5", "6", "7", "8", "9"}

DigitChar(d) == <<"0", "1", "2", "3", "4", "5", "6", "7", "8", "9">>[d + 1]

RECURSIVE NatToStr(_)
NatToStr(n) == IF n < 10 THEN <<DigitChar(n)>>
               ELSE NatToStr(n \div 10) \o <<DigitChar(n % 10)>>

\* fmt.Sprintf("%d", n)
IntToStr(n) == IF n < 0 THEN <<"-">> \o NatToStr(-n) ELSE NatToStr(n)

\* fmt.Sprintf("%d %d %d", r, g, b)
Sprintf3(r, g, b) == IntToStr(r) \o <<" ">> \o IntToStr(g) \o <<" ">> \o IntToStr(b)

RECURSIVE TrimLeft(_)
TrimLeft(s) == IF s # <<>> /\ IsSpace(Head(s)) THEN TrimLeft(Tail(s)) ELSE s

RECURSIVE TrimRight(_)
TrimRight(s) == IF s # <<>> /\ IsSpace(s[Len(s)])
                THEN TrimRight(SubSeq(s, 1, Len(s) - 1)) ELSE s

\* strings.TrimSpace
TrimSpace(s) == TrimRight(TrimLeft(s))

\* strings.HasPrefix
HasPrefix(s, p) == Len(s) >= Len(p) /\ SubSeq(s, 1, Len(p)) = p

RECURSIVE FieldsFrom(_, _, _)
FieldsFrom(s, cur, acc) ==
    IF s = <<>> THEN (IF cur = <<>> THEN acc ELSE Append(acc, cur))
    ELSE IF IsSpace(Head(s))
         THEN FieldsFrom(Tail(s), <<>>, IF cur = <<>> THEN acc ELSE Append(acc, cur))
         ELSE FieldsFrom(Tail(s), Append(cur, Head(s)), acc)

\* strings.Fields
Fields(s) == FieldsFrom(s, <<>>, <<>>)

RECURSIVE StripTrailingDigits(_)
\* regexp.MustCompile(`\d+$`).ReplaceAllString(s, "")
StripTrailingDigits(s) == IF s # <<>> /\ IsDigit(s[Len(s)])
                          THEN StripTrailingDigits(SubSeq(s, 1, Len(s) - 1)) ELSE s

RECURSIVE DigitsValue(_, _)
\* the value of a string of decimal digits, most significant first
DigitsValue(s, acc) ==
    IF s = <<>> THEN acc
    ELSE DigitsValue(Tail(s), 10 * acc + (CHOOSE d \in 0 .. 9 : DigitChar(d) = Head(s)))

\* strconv.Atoi: an optional sign and at least one decimal digit
Atoi(s) ==
    LET signed == s # <<>> /\ Head(s) \in {"+", "-"}
        digits == IF signed THEN Tail(s) ELSE s
    IN  IF digits = <<>> \/ \E i \in 1 .. Len(digits) : ~IsDigit(digits[i])
        THEN [ok |-> FALSE, val |-> 0]
        ELSE [ok |-> TRUE,
              val |-> IF signed /\ Head(s) = "-" THEN 0 - DigitsValue(digits, 0)
                      ELSE DigitsValue(digits, 0)]

\* int(x) of the quotient a / b, b > 0: truncation toward zero
TruncDiv(a, b) == IF a >= 0 THEN a \div b ELSE 0 - ((0 - a) \div b)

\* --------------------------------------------------------------- config
RGB(r, g, b) == [R |-> r, G |-> g, B |-> b]

\* parseRGB that asks for at least three fields and converts the first
\* three.
parseRGB_AtLeastThree(s) ==
    LET parts == Fields(s)
    IN  IF Len(parts) < 3 THEN RGB(255, 255, 255)
        ELSE RGB(Atoi(parts[1]).val, Atoi(parts[2]).val, Atoi(parts[3]).val)

\* parseRGB: the error of each strconv.Atoi is dropped, and the value
\* Atoi returns with a syntax error is 0
parseRGB(s) ==
    LET parts == Fields(s)
    IN  IF Len(parts) # 3 THEN RGB(255, 255, 255)
        ELSE RGB(Atoi(parts[1]).val, Atoi(parts[2]).val, Atoi(parts[3]).val)

\* Config.setDefaults, disk monitor colours
DefaultColors == [ColorDiskHealth  |-> RGB(255, 255, 255),
                  ColorDiskUnavail |-> RGB(255, 0, 0),
                  ColorZpoolFail   |-> RGB(255, 0, 0),
                  ColorSmartFail   |-> RGB(255, 0, 0)]

\* A configuration file that gives every indication its own colour.
DistinctColors == [ColorDiskHealth  |-> RGB(255, 255, 255),
                   ColorDiskUnavail |-> RGB(255, 0, 0),
                   ColorZpoolFail   |-> RGB(255, 0, 255),
                   ColorSmartFail   |-> RGB(255, 128, 0)]

ColorConfigs == {DefaultColors, DistinctColors}

\* RGB.String / the string LED.SetColor writes
ColorString(c) == Sprintf3(c.R, c.G, c.B)

\* Config.setDefaults, the disk monitor's settings other than the colours.
\* The three check intervals are in seconds; LedRefreshInterval, a
\* float64 of seconds in the program, is held in milliseconds.
RunDefaults == [Enable |-> TRUE, MappingMethod |-> "ata",
                CheckSmart |-> TRUE, CheckZpool |-> FALSE,
                BrightnessDiskLeds |-> 255,
                CheckSmartInterval |-> 360, CheckZpoolInterval |-> 5,
                CheckDiskOnlineInterval |-> 5, LedRefreshInterval |-> 100]

\* A DiskMonitorConfig: colours and settings.
DiskConfig(colors, settings) == colors @@ settings

\* A nil *RGB (a tier colour the configuration file does not give).
Nil == [nil |-> TRUE]

\* Config.setDefaults, network monitor
NetDefaults ==
    [Enable |-> FALSE, Interfaces |-> <<>>,
     ColorNormal |-> RGB(255, 255, 255),
     ColorGatewayUnreachable |-> RGB(255, 0, 0),
     ColorLinkPurpleDefault |-> RGB(128, 0, 128),
     ColorLink100 |-> Nil, ColorLink1000 |-> Nil, ColorLink2000 |-> Nil,
     ColorLink2500 |-> Nil, ColorLink5000 |-> Nil, ColorLink10000 |-> Nil,
     BrightnessLed |-> 255, CheckInterval |-> 60,
     CheckGatewayConnectivity |-> FALSE,
     CheckLinkSpeed |-> FALSE, CheckLinkSpeedDynamic |-> FALSE,
     CheckLinkSpeedDynamicColorLow |-> RGB(255, 0, 0),
     CheckLinkSpeedDynamicColorHigh |-> RGB(0, 255, 0),
     CheckLinkSpeedDynamicSpeedLow |-> 0,
     CheckLinkSpeedDynamicSpeedHigh |-> 10000,
     BlinkTx |-> 1, BlinkRx |-> 1, BlinkInterval |-> 200]

\* ----------------------------------------------------- names in the model
sda  == <<"s", "d", "a">>
sda1 == <<"s", "d", "a", "1">>
sdc1 == <<"s", "d", "c", "1">>
disk1 == <<"d", "i", "s", "k", "1">>
sdb  == <<"s", "d", "b">>
sdb1 == <<"s", "d", "b", "1">>
dm0  == <<"d", "m", "-", "0">>
mirror0 == <<"m", "i", "r", "r", "o", "r", "-", "0">>
disk2 == <<"d", "i", "s", "k", "2">>
eth0 == <<"e", "t", "h", "0">>
eth1 == <<"e", "t", "h", "1">>
netdev == <<"n", "e", "t", "d", "e", "v">>

\* Device states of `zpool status`.
ONLINE   == <<"O", "N", "L", "I", "N", "E">>
AVAIL    == <<"A", "V", "A", "I", "L">>
DEGRADED == <<"D", "E", "G", "R", "A", "D", "E", "D">>
OFFLINE  == <<"O", "F", "F", "L", "I", "N", "E">>
FAULTED  == <<"F", "A", "U", "L", "T", "E", "D">>
UNAVAIL  == <<"U", "N", "A", "V", "A", "I", "L">>
REMOVED  == <<"R", "E", "M", "O", "V", "E", "D">>
CORRUPT  == <<"C", "O", "R", "R", "U", "P", "T">>
INUSE    == <<"I", "N", "U", "S", "E">>

\* case "OFFLINE", "FAULTED", "UNAVAIL", "REMOVED", "CORRUPT"
FailureStates == {OFFLINE, FAULTED, UNAVAIL, REMOVED, CORRUPT}

\* case "ONLINE", "AVAIL", "DEGRADED"
HealthyStates == {ONLINE, AVAIL, DEGRADED}

\* The states a device line of the pool status can carry; INUSE stands for
\* the states the monitor does not name.
PoolStates == FailureStates \cup HealthyStates \cup {INUSE}

\* Device names a pool status line can start with.
PoolDevNames == {sda, sda1, sdb1, sdc1, dm0, mirror0}

\* One line of `zpool status -L`: indentation, name, state, error counters.
StatusLine(dev, st) ==
    <<"\t", " ", " ">> \o dev \o <<" ", " ">> \o st \o <<" ", "0", " ", "0", " ", "0">>

\* The lines a pool status can contain: device lines, and lines with a
\* single field.
StatusLines == {StatusLine(dev, st) : dev \in PoolDevNames, st \in PoolStates}
               \cup {<<" ">> \o dev : dev \in {sda, mirror0}}

\* The slot LED initializeDisks binds to a device (sda in slot 1, sdb in 2).
LedOf(d) == IF d = sda THEN disk1 ELSE disk2

\* Content of /sys/class/block/<dev>/stat; NoFile when the node is gone.
NoFile == <<"<", "n", "o", "n", "e", ">">>
StatContents == {<<"1", " ", "0">>, <<"2", " ", "0">>}

\* Exit codes of `smartctl -H`.
ExitCodes == 0 .. 255

RECURSIVE BitAndNot(_, _, _)
\* a &^ b on non-negative integers, bit by bit (w is the weight of the bit)
BitAndNot(a, b, w) ==
    IF a = 0 THEN 0
    ELSE (IF (a % 2 = 1) /\ (b % 2 = 0) THEN w ELSE 0)
         + BitAndNot(a \div 2, b \div 2, 2 * w)

\* The test without the mask of the standby bit.
SmartRetFails_NoMask(ret) == ret # 0

\* ret&^32 != 0
SmartRetFails(ret) == BitAndNot(ret, 32, 1) # 0

VARIABLES
    cfg,            \* Monitor.cfg: the four disk colours
    disks,          \* Monitor.disks: device -> diskState
    ledToDevice,    \* Monitor.ledToDevice
    deviceToLED,    \* Monitor.deviceToLED
    zpoolLEDMap,    \* Monitor.zpoolLEDMap
    faultedLogged,  \* zpoolCheckLoop's faultedLogged: the keys mapped to true
    ledColor,       \* /sys/class/leds/<led>/color
    ledShot,        \* /sys/class/leds/<led>/shot
    statFile,       \* /sys/class/block/<dev>/stat
    pcSmart, smartRem, smartCur,               \* checkSMART: position, locals
    pcZpool, zDev, zState, zLed, zColor,         \* checkZpool: position, locals
    pcOnline, onlineRem, onlineCur,            \* checkDiskOnline
    pcIo, ioRem, ioCur, ioLast,                \* checkIO
    ctxDone,        \* the context main passes to every monitor is cancelled
    ncfg,           \* cfg.NetworkMonitor
    netPc, netGw, netRet,   \* netmon.Run per started instance: position,
                            \* gwConn, return value
    netLed,         \* /sys/class/leds/netdev: the attributes written
    netWriters,     \* the instances that have written an attribute of netdev
    netProbe,       \* per instance: the result of its last gateway check
    netSpeed,       \* per instance: the speed attribute at its last colour write
    muW, muR,       \* diskState.mu per device: the loop holding it for
                    \* writing, the loops holding it for reading
    lkPc, lkDev,    \* per loop: position in its lock protocol, its disk
    runPc, runRet,  \* diskmon.Run: position and return value
    machine,        \* what Run finds on the appliance: product name,
                    \* DISK_SERIAL, the enumerated disks, the LEDs
    mapping,        \* initializeDisks' mapping: the slot keys in slot order
    ledInit,        \* /sys/class/leds/<led>: trigger, invert, delay_on,
                    \* delay_off, brightness
    failLog,        \* per pool device: the failure entries checkZpool has
                    \* logged for it since its last healthy report
    ticker,         \* per started loop of the disk monitor: the period of
                    \* its time.Ticker, in milliseconds
    rgbText,        \* parseRGB: its argument s
    rgbParsed       \* parseRGB: the RGB it has returned, Nil before the call

monitorVars == <<cfg, ledToDevice, deviceToLED, zpoolLEDMap>>
smartVars   == <<pcSmart, smartRem, smartCur>>
zpoolVars   == <<pcZpool, zDev, zState, zLed, zColor>>
onlineVars  == <<pcOnline, onlineRem, onlineCur>>
ioVars      == <<pcIo, ioRem, ioCur, ioLast>>
netVars     == <<ncfg, netPc, netGw, netRet, netLed, netWriters, netProbe, netSpeed>>
lockVars    == <<muW, muR, lkPc, lkDev>>
parseVars   == <<rgbText, rgbParsed>>
initVars    == <<runPc, runRet, machine, mapping, ledInit, ticker, failLog,
                 parseVars>>
mainVars    == <<ctxDone, netVars, lockVars, initVars>>
diskVars    == <<monitorVars, disks, faultedLogged, ledColor, ledShot, statFile,
                 smartVars, zpoolVars, onlineVars, ioVars>>

vars == <<monitorVars, disks, faultedLogged, ledColor, ledShot, statFile,
          smartVars, zpoolVars, onlineVars, ioVars, mainVars>>

\* ------------------------------------------------------------ LED handle
\* LED.Read("color"): the trimmed attribute text
ReadColor(led) == TrimSpace(ledColor[led])

\* LED.SetColor that keeps every channel within 0 .. 255.
SetColor_Clamped(led, c) ==
    LET clamp(n) == IF n < 0 THEN 0 ELSE IF n > 255 THEN 255 ELSE n
    IN  ledColor' = [ledColor EXCEPT
                        ![led] = Sprintf3(clamp(c.R), clamp(c.G), clamp(c.B))]

\* LED.SetColor(r, g, b)
SetColor(led, c) == ledColor' = [ledColor EXCEPT ![led] = ColorString(c)]

\* LED.TriggerShot()
TriggerShot(led) == ledShot' = [ledShot EXCEPT ![led] = <<"1">>]

\* diskState as initializeDisks stores it
NewDiskState(l, d) == [led |-> l, device |-> d, lastStat |-> <<>>,
                       zpoolFaulted |-> FALSE, smartFailed |-> FALSE,
                       offline |-> FALSE]

\* isHealthy := !state.smartFailed && !state.zpoolFaulted && !state.offline
IsHealthy(st) == ~st.smartFailed /\ ~st.zpoolFaulted /\ ~st.offline

\* The pool maps buildZpoolMapping can leave for the registered devices
\* devs: empty when the command failed or the pool has no monitored device,
\* else both names of the pool member sda1.
PoolMaps(devs) == {<<>>} \cup (IF sda \in devs
                               THEN {(sda1 :> disk1) @@ (sda :> disk1)} ELSE {})

\* ------------------------------------------------------------------ Init
\* The LED netdev before any monitor has written it.
NetLedUntouched == [trigger |-> <<>>, device_name |-> <<>>, link |-> <<>>,
                    tx |-> <<>>, rx |-> <<>>, interval |-> <<>>,
                    color |-> <<>>, brightness |-> <<>>]

\* The locks are looked at in a specification of their own.
NoLocks == muW = <<>> /\ muR = <<>> /\ lkPc = <<>> /\ lkDev = <<>>

\* No colour text is being parsed.
NoParse == rgbText = <<>> /\ rgbParsed = Nil

\* Run has initialized the monitor and started its loops.
Started ==
    /\ runPc = "running" /\ runRet = <<>>
    /\ machine = <<>> /\ mapping = <<>> /\ ledInit = <<>> /\ ticker = <<>>
    /\ failLog = <<>>
    /\ NoParse

\* main with the network monitor disabled (the default) and no signal yet.
NoNetwork ==
    /\ ctxDone = FALSE
    /\ ncfg = NetDefaults
    /\ netPc = <<>> /\ netGw = <<>> /\ netRet = <<>>
    /\ netProbe = <<>> /\ netSpeed = <<>>
    /\ netLed = NetLedUntouched
    /\ netWriters = {}

\* The state Run reaches once initializeDisks has registered the devices
\* devs and buildZpoolMapping is done: every loop waits for its first tick.
MonitorAt(devs) ==
    /\ cfg \in ColorConfigs
    /\ disks = [d \in devs |-> NewDiskState(LedOf(d), d)]
    /\ ledToDevice = [l \in {LedOf(d) : d \in devs} |->
                            CHOOSE d \in devs : LedOf(d) = l]
    /\ deviceToLED = [d \in devs |-> LedOf(d)]
    /\ zpoolLEDMap \in PoolMaps(devs)
    /\ faultedLogged = {}
    /\ ledColor = [l \in {LedOf(d) : d \in devs} |-> ColorString(cfg.ColorDiskHealth)]
    /\ ledShot = [l \in {LedOf(d) : d \in devs} |-> <<>>]
    /\ statFile \in [devs -> StatContents]
    /\ pcSmart = "idle" /\ smartRem = {} /\ smartCur = <<>>
    /\ pcZpool = "idle" /\ zDev = <<>> /\ zState = <<>>
    /\ zLed = <<>> /\ zColor = <<>>
    /\ pcOnline = "idle" /\ onlineRem = {} /\ onlineCur = <<>>
    /\ pcIo = "idle" /\ ioRem = {} /\ ioCur = <<>> /\ ioLast = <<>>

\* The disk monitor alone: main has no network monitor to start.
InitWith(devs) == NoNetwork /\ NoLocks /\ Started /\ MonitorAt(devs)

\* One disk in slot 1.
Init == InitWith({sda})

\* Disks in slots 1 and 2.
InitTwo == InitWith({sda, sdb})

\* ----------------------------------------------------------- environment
\* The kernel changes a device's statistics, removes the node or brings it
\* back.
EnvStat ==
    /\ \E d \in DOMAIN statFile, v \in StatContents \cup {NoFile} :
        /\ v # statFile[d]
        /\ statFile' = [statFile EXCEPT ![d] = v]
    /\ UNCHANGED <<mainVars, monitorVars, disks, faultedLogged, ledColor, ledShot,
                   smartVars, zpoolVars, onlineVars, ioVars>>

\* The kernel removes a device's node (the disk is pulled).
EnvRemove ==
    /\ \E d \in DOMAIN statFile :
        /\ statFile[d] # NoFile
        /\ statFile' = [statFile EXCEPT ![d] = NoFile]
    /\ UNCHANGED <<mainVars, monitorVars, disks, faultedLogged, ledColor, ledShot,
                   smartVars, zpoolVars, onlineVars, ioVars>>

\* ------------------------------------------------------------ SMART loop
\* checkSMART, entry: snapshot of the disk table
checkSMART_begin ==
    /\ pcSmart = "idle"
    /\ pcSmart' = "loop"
    /\ smartRem' = DOMAIN disks
    /\ UNCHANGED <<mainVars, monitorVars, disks, faultedLogged, ledColor, ledShot, statFile,
                   smartCur, zpoolVars, onlineVars, ioVars>>

\* checkSMART, end of the range loop
checkSMART_end ==
    /\ pcSmart = "loop" /\ smartRem = {}
    /\ pcSmart' = "idle"
    /\ UNCHANGED <<mainVars, monitorVars, disks, faultedLogged, ledColor, ledShot, statFile,
                   smartRem, smartCur, zpoolVars, onlineVars, ioVars>>

\* checkSMART, one iteration up to `if !isHealthy { continue }`
checkSMART_read ==
    /\ pcSmart = "loop"
    /\ \E d \in smartRem :
        /\ smartRem' = smartRem \ {d}
        /\ IF IsHealthy(disks[d])
           THEN pcSmart' = "run" /\ smartCur' = d
           ELSE pcSmart' = "loop" /\ smartCur' = <<>>
    /\ UNCHANGED <<mainVars, monitorVars, disks, faultedLogged, ledColor, ledShot, statFile,
                   zpoolVars, onlineVars, ioVars>>

\* checkSMART, smartctl returned ret: test of the code and the flag update
checkSMART_run(ret) ==
    /\ pcSmart = "run"
    /\ IF SmartRetFails(ret)
       THEN /\ disks' = [disks EXCEPT ![smartCur].smartFailed = TRUE]
            /\ pcSmart' = "write" /\ smartCur' = smartCur
       ELSE /\ disks' = disks
            /\ pcSmart' = "loop" /\ smartCur' = <<>>
    /\ UNCHANGED <<mainVars, monitorVars, faultedLogged, ledColor, ledShot, statFile,
                   smartRem, zpoolVars, onlineVars, ioVars>>

\* The flag update without the write of the colour.
checkSMART_write_NoColor ==
    /\ pcSmart = "write"
    /\ pcSmart' = "loop" /\ smartCur' = <<>>
    /\ UNCHANGED <<mainVars, monitorVars, disks, faultedLogged, ledColor, ledShot,
                   statFile, smartRem, zpoolVars, onlineVars, ioVars>>

\* checkSMART, ledColor.SetColor(ColorSmartFail) after the flag update
checkSMART_write ==
    /\ pcSmart = "write"
    /\ SetColor(disks[smartCur].led, cfg.ColorSmartFail)
    /\ pcSmart' = "loop" /\ smartCur' = <<>>
    /\ UNCHANGED <<mainVars, monitorVars, disks, faultedLogged, ledShot, statFile,
                   smartRem, zpoolVars, onlineVars, ioVars>>

\* ------------------------------------------------------------- pool loop
\* The LED checkZpool finds for a pool device: zpoolLEDMap by the reported
\* name, then by the base name, then deviceToLED by the base name; <<>> when
\* none has it.
LookupLED(zpoolDev) ==
    LET baseDev == StripTrailingDigits(zpoolDev)
    IN  IF zpoolDev \in DOMAIN zpoolLEDMap THEN zpoolLEDMap[zpoolDev]
        ELSE IF baseDev \in DOMAIN zpoolLEDMap THEN zpoolLEDMap[baseDev]
        ELSE IF baseDev \in DOMAIN deviceToLED THEN deviceToLED[baseDev]
        ELSE <<>>

\* checkZpool, entry: `zpool status -L` is started
checkZpool_begin ==
    /\ pcZpool = "idle"
    /\ pcZpool' = "cmd"
    /\ UNCHANGED <<mainVars, monitorVars, disks, faultedLogged, ledColor, ledShot, statFile,
                   zDev, zState, zLed, zColor, smartVars, onlineVars, ioVars>>

\* A failed command taken as a report that no device is in a failure state.
checkZpool_fail_ClearsLogged ==
    /\ pcZpool = "cmd"
    /\ pcZpool' = "idle"
    /\ faultedLogged' = {}
    /\ UNCHANGED <<mainVars, monitorVars, disks, ledColor, ledShot, statFile,
                   zDev, zState, zLed, zColor, smartVars, onlineVars, ioVars>>

\* checkZpool, `if err != nil { return }`
checkZpool_fail ==
    /\ pcZpool = "cmd"
    /\ pcZpool' = "idle"
    /\ UNCHANGED <<mainVars, monitorVars, disks, faultedLogged, ledColor, ledShot, statFile,
                   zDev, zState, zLed, zColor, smartVars, onlineVars, ioVars>>

\* checkZpool, the command succeeded: the loop over its lines starts
checkZpool_output ==
    /\ pcZpool = "cmd"
    /\ pcZpool' = "lines"
    /\ UNCHANGED <<mainVars, monitorVars, disks, faultedLogged, ledColor, ledShot, statFile,
                   zDev, zState, zLed, zColor, smartVars, onlineVars, ioVars>>

\* checkZpool, end of the loop over the lines
checkZpool_end ==
    /\ pcZpool = "lines"
    /\ pcZpool' = "idle"
    /\ UNCHANGED <<mainVars, monitorVars, disks, faultedLogged, ledColor, ledShot, statFile,
                   zDev, zState, zLed, zColor, smartVars, onlineVars, ioVars>>

\* fields := strings.Fields(line) of the trimmed line
LineFields(rawLine) == Fields(TrimSpace(rawLine))

\* The three `continue` of the loop over the lines: not a device line, fewer
\* than two fields, no LED for the device.
LineSkipped(rawLine) ==
    \/ /\ ~HasPrefix(TrimSpace(rawLine), <<"s", "d">>)
       /\ ~HasPrefix(TrimSpace(rawLine), <<"d", "m">>)
    \/ Len(LineFields(rawLine)) < 2
    \/ LookupLED(LineFields(rawLine)[1]) = <<>>

\* checkZpool, one line up to the read of the LED's current colour
checkZpool_line(rawLine) ==
    /\ pcZpool = "lines"
    /\ IF LineSkipped(rawLine)
       THEN /\ pcZpool' = "lines"
            /\ UNCHANGED <<zDev, zState, zLed, zColor>>
       ELSE /\ pcZpool' = "switch"
            /\ zDev' = LineFields(rawLine)[1]
            /\ zState' = TrimSpace(LineFields(rawLine)[2])
            /\ zLed' = LookupLED(LineFields(rawLine)[1])
            /\ zColor' = ReadColor(LookupLED(LineFields(rawLine)[1]))
    /\ UNCHANGED <<mainVars, monitorVars, disks, faultedLogged, ledColor, ledShot, statFile,
                   smartVars, onlineVars, ioVars>>

\* The count of failure entries logged for a device, one more entry
\* logged for it, and its count reset by a healthy report.
LogCount(log, dev) == IF dev \in DOMAIN log THEN log[dev] ELSE 0

LogEntry(log, dev) == (dev :> LogCount(log, dev) + 1) @@ log

LogReset(log, dev) == [d \in DOMAIN log \ {dev} |-> log[d]]

\* The healthy case without the test of the colour read back.
checkZpool_switch_AlwaysRestore ==
    /\ pcZpool = "switch"
    /\ pcZpool' = "lines"
    /\ IF zState \in FailureStates
       THEN /\ SetColor(zLed, cfg.ColorZpoolFail)
            /\ failLog' = IF zDev \in faultedLogged THEN failLog
                          ELSE LogEntry(failLog, zDev)
            /\ faultedLogged' = faultedLogged \cup {zDev}
       ELSE IF zState \in HealthyStates
       THEN /\ SetColor(zLed, cfg.ColorDiskHealth)
            /\ failLog' = LogReset(failLog, zDev)
            /\ faultedLogged' = faultedLogged \ {zDev}
       ELSE UNCHANGED <<ledColor, faultedLogged, failLog>>
    /\ zDev' = <<>> /\ zState' = <<>> /\ zLed' = <<>> /\ zColor' = <<>>
    /\ UNCHANGED <<ctxDone, netVars, lockVars, runPc, runRet, machine, mapping,
                   ledInit, ticker, parseVars>>
    /\ UNCHANGED <<monitorVars, disks, ledShot, statFile,
                   smartVars, onlineVars, ioVars>>

\* The failure case writing only over the healthy colour.
checkZpool_switch_GatedFail ==
    /\ pcZpool = "switch"
    /\ pcZpool' = "lines"
    /\ IF zState \in FailureStates
       THEN /\ IF zColor = ColorString(cfg.ColorDiskHealth)
               THEN SetColor(zLed, cfg.ColorZpoolFail)
               ELSE ledColor' = ledColor
            /\ failLog' = IF zDev \in faultedLogged THEN failLog
                          ELSE LogEntry(failLog, zDev)
            /\ faultedLogged' = faultedLogged \cup {zDev}
       ELSE IF zState \in HealthyStates
       THEN /\ IF zColor = ColorString(cfg.ColorZpoolFail)
               THEN SetColor(zLed, cfg.ColorDiskHealth)
               ELSE ledColor' = ledColor
            /\ failLog' = LogReset(failLog, zDev)
            /\ faultedLogged' = faultedLogged \ {zDev}
       ELSE UNCHANGED <<ledColor, faultedLogged, failLog>>
    /\ zDev' = <<>> /\ zState' = <<>> /\ zLed' = <<>> /\ zColor' = <<>>
    /\ UNCHANGED <<ctxDone, netVars, lockVars, runPc, runRet, machine, mapping,
                   ledInit, ticker, parseVars>>
    /\ UNCHANGED <<monitorVars, disks, ledShot, statFile,
                   smartVars, onlineVars, ioVars>>

\* The failure case that logs without looking at faultedLogged.
checkZpool_switch_LogAlways ==
    /\ pcZpool = "switch"
    /\ pcZpool' = "lines"
    /\ IF zState \in FailureStates
       THEN /\ SetColor(zLed, cfg.ColorZpoolFail)
            /\ failLog' = LogEntry(failLog, zDev)
            /\ faultedLogged' = faultedLogged \cup {zDev}
       ELSE IF zState \in HealthyStates
       THEN /\ IF zColor = ColorString(cfg.ColorZpoolFail)
               THEN SetColor(zLed, cfg.ColorDiskHealth)
               ELSE ledColor' = ledColor
            /\ failLog' = LogReset(failLog, zDev)
            /\ faultedLogged' = faultedLogged \ {zDev}
       ELSE UNCHANGED <<ledColor, faultedLogged, failLog>>
    /\ zDev' = <<>> /\ zState' = <<>> /\ zLed' = <<>> /\ zColor' = <<>>
    /\ UNCHANGED <<ctxDone, netVars, lockVars, runPc, runRet, machine, mapping,
                   ledInit, ticker, parseVars>>
    /\ UNCHANGED <<monitorVars, disks, ledShot, statFile,
                   smartVars, onlineVars, ioVars>>

\* checkZpool, `switch state` for the line read; the iteration ends and its
\* locals with it
checkZpool_switch ==
    /\ pcZpool = "switch"
    /\ pcZpool' = "lines"
    /\ IF zState \in FailureStates
       THEN /\ SetColor(zLed, cfg.ColorZpoolFail)
            /\ failLog' = IF zDev \in faultedLogged THEN failLog
                          ELSE LogEntry(failLog, zDev)
            /\ faultedLogged' = faultedLogged \cup {zDev}
       ELSE IF zState \in HealthyStates
       THEN /\ IF zColor = ColorString(cfg.ColorZpoolFail)
               THEN SetColor(zLed, cfg.ColorDiskHealth)
               ELSE ledColor' = ledColor
            /\ failLog' = LogReset(failLog, zDev)
            /\ faultedLogged' = faultedLogged \ {zDev}
       ELSE UNCHANGED <<ledColor, faultedLogged, failLog>>
    /\ zDev' = <<>> /\ zState' = <<>> /\ zLed' = <<>> /\ zColor' = <<>>
    /\ UNCHANGED <<ctxDone, netVars, lockVars, runPc, runRet, machine, mapping,
                   ledInit, ticker, parseVars>>
    /\ UNCHANGED <<monitorVars, disks, ledShot, statFile,
                   smartVars, onlineVars, ioVars>>

\* ----------------------------------------------------------- online loop
\* checkDiskOnline, entry: snapshot of the disk table
checkDiskOnline_begin ==
    /\ pcOnline = "idle"
    /\ pcOnline' = "loop"
    /\ onlineRem' = DOMAIN disks
    /\ UNCHANGED <<mainVars, monitorVars, disks, faultedLogged, ledColor, ledShot, statFile,
                   onlineCur, smartVars, zpoolVars, ioVars>>

\* checkDiskOnline, end of the range loop
checkDiskOnline_end ==
    /\ pcOnline = "loop" /\ onlineRem = {}
    /\ pcOnline' = "idle"
    /\ UNCHANGED <<mainVars, monitorVars, disks, faultedLogged, ledColor, ledShot, statFile,
                   onlineRem, onlineCur, smartVars, zpoolVars, ioVars>>

\* The iteration with a recovery path: an offline disk whose node is back
\* is unflagged and shown healthy again.
checkDiskOnline_read_Recovers ==
    /\ pcOnline = "loop"
    /\ \E d \in onlineRem :
        /\ onlineRem' = onlineRem \ {d}
        /\ IF disks[d].offline /\ statFile[d] # NoFile
           THEN /\ disks' = [disks EXCEPT ![d].offline = FALSE]
                /\ SetColor(disks[d].led, cfg.ColorDiskHealth)
                /\ pcOnline' = "loop" /\ onlineCur' = <<>>
           ELSE /\ UNCHANGED <<disks, ledColor>>
                /\ IF IsHealthy(disks[d])
                   THEN pcOnline' = "stat" /\ onlineCur' = d
                   ELSE pcOnline' = "loop" /\ onlineCur' = <<>>
    /\ UNCHANGED <<mainVars, monitorVars, faultedLogged, ledShot, statFile,
                   smartVars, zpoolVars, ioVars>>

\* checkDiskOnline, one iteration up to `if !isHealthy { continue }`
checkDiskOnline_read ==
    /\ pcOnline = "loop"
    /\ \E d \in onlineRem :
        /\ onlineRem' = onlineRem \ {d}
        /\ IF IsHealthy(disks[d])
           THEN pcOnline' = "stat" /\ onlineCur' = d
           ELSE pcOnline' = "loop" /\ onlineCur' = <<>>
    /\ UNCHANGED <<mainVars, monitorVars, disks, faultedLogged, ledColor, ledShot, statFile,
                   smartVars, zpoolVars, ioVars>>

\* The flag update done by storing a fresh diskState with offline set.
checkDiskOnline_stat_FreshState ==
    /\ pcOnline = "stat"
    /\ IF statFile[onlineCur] = NoFile
       THEN /\ disks' = [disks EXCEPT ![onlineCur] =
                            [NewDiskState(disks[onlineCur].led, onlineCur)
                                EXCEPT !.offline = TRUE]]
            /\ pcOnline' = "write" /\ onlineCur' = onlineCur
       ELSE /\ disks' = disks
            /\ pcOnline' = "loop" /\ onlineCur' = <<>>
    /\ UNCHANGED <<mainVars, monitorVars, faultedLogged, ledColor, ledShot, statFile,
                   onlineRem, smartVars, zpoolVars, ioVars>>

\* The flag update that also drops the slot's binding from the maps.
checkDiskOnline_stat_Unbind ==
    /\ pcOnline = "stat"
    /\ IF statFile[onlineCur] = NoFile
       THEN /\ disks' = [disks EXCEPT ![onlineCur].offline = TRUE]
            /\ deviceToLED' = [d \in DOMAIN deviceToLED \ {onlineCur} |->
                                    deviceToLED[d]]
            /\ ledToDevice' = [l \in DOMAIN ledToDevice \ {disks[onlineCur].led} |->
                                    ledToDevice[l]]
            /\ pcOnline' = "write" /\ onlineCur' = onlineCur
       ELSE /\ UNCHANGED <<disks, deviceToLED, ledToDevice>>
            /\ pcOnline' = "loop" /\ onlineCur' = <<>>
    /\ UNCHANGED <<mainVars, cfg, zpoolLEDMap, faultedLogged, ledColor, ledShot, statFile,
                   onlineRem, smartVars, zpoolVars, ioVars>>

\* checkDiskOnline, os.Stat of the statistics node and the flag update
checkDiskOnline_stat ==
    /\ pcOnline = "stat"
    /\ IF statFile[onlineCur] = NoFile
       THEN /\ disks' = [disks EXCEPT ![onlineCur].offline = TRUE]
            /\ pcOnline' = "write" /\ onlineCur' = onlineCur
       ELSE /\ disks' = disks
            /\ pcOnline' = "loop" /\ onlineCur' = <<>>
    /\ UNCHANGED <<mainVars, monitorVars, faultedLogged, ledColor, ledShot, statFile,
                   onlineRem, smartVars, zpoolVars, ioVars>>

\* checkDiskOnline, ledColor.SetColor(ColorDiskUnavail) after the flag update
checkDiskOnline_write ==
    /\ pcOnline = "write"
    /\ SetColor(disks[onlineCur].led, cfg.ColorDiskUnavail)
    /\ pcOnline' = "loop" /\ onlineCur' = <<>>
    /\ UNCHANGED <<mainVars, monitorVars, disks, faultedLogged, ledShot, statFile,
                   onlineRem, smartVars, zpoolVars, ioVars>>

\* -------------------------------------------------------------- I/O loop
\* checkIO, entry: snapshot of the disk table
checkIO_begin ==
    /\ pcIo = "idle"
    /\ pcIo' = "loop"
    /\ ioRem' = DOMAIN disks
    /\ UNCHANGED <<mainVars, monitorVars, disks, faultedLogged, ledColor, ledShot, statFile,
                   ioCur, ioLast, smartVars, zpoolVars, onlineVars>>

\* checkIO, end of the range loop
checkIO_end ==
    /\ pcIo = "loop" /\ ioRem = {}
    /\ pcIo' = "idle"
    /\ UNCHANGED <<mainVars, monitorVars, disks, faultedLogged, ledColor, ledShot, statFile,
                   ioRem, ioCur, ioLast, smartVars, zpoolVars, onlineVars>>

\* checkIO, one iteration up to `if !isHealthy { continue }`
checkIO_read ==
    /\ pcIo = "loop"
    /\ \E d \in ioRem :
        /\ ioRem' = ioRem \ {d}
        /\ IF IsHealthy(disks[d])
           THEN pcIo' = "stat" /\ ioCur' = d /\ ioLast' = disks[d].lastStat
           ELSE pcIo' = "loop" /\ ioCur' = <<>> /\ ioLast' = <<>>
    /\ UNCHANGED <<mainVars, monitorVars, disks, faultedLogged, ledColor, ledShot, statFile,
                   smartVars, zpoolVars, onlineVars>>

\* The comparison without the store of the new snapshot.
checkIO_stat_NoStore ==
    /\ pcIo = "stat"
    /\ IF statFile[ioCur] # NoFile /\ statFile[ioCur] # ioLast
       THEN pcIo' = "shot" /\ ioCur' = ioCur
       ELSE pcIo' = "loop" /\ ioCur' = <<>>
    /\ ioLast' = <<>>
    /\ UNCHANGED <<mainVars, monitorVars, disks, faultedLogged, ledColor, ledShot, statFile,
                   ioRem, smartVars, zpoolVars, onlineVars>>

\* checkIO, os.ReadFile of the statistics, the comparison and the store
checkIO_stat ==
    /\ pcIo = "stat"
    /\ IF statFile[ioCur] # NoFile /\ statFile[ioCur] # ioLast
       THEN /\ disks' = [disks EXCEPT ![ioCur].lastStat = statFile[ioCur]]
            /\ pcIo' = "shot" /\ ioCur' = ioCur
       ELSE /\ disks' = disks
            /\ pcIo' = "loop" /\ ioCur' = <<>>
    /\ ioLast' = <<>>
    /\ UNCHANGED <<mainVars, monitorVars, faultedLogged, ledColor, ledShot, statFile,
                   ioRem, smartVars, zpoolVars, onlineVars>>

\* checkIO, state.led.TriggerShot() after the store
checkIO_shot ==
    /\ pcIo = "shot"
    /\ TriggerShot(disks[ioCur].led)
    /\ pcIo' = "loop" /\ ioCur' = <<>>
    /\ UNCHANGED <<mainVars, monitorVars, disks, faultedLogged, ledColor, statFile,
                   ioRem, ioLast, smartVars, zpoolVars, onlineVars>>

\* -------------------------------------------------------- network monitor
\* getLinkSpeed: the content of /sys/class/net/<iface>/speed, trimmed and
\* converted; ok is false when the file cannot be read or is not a number.
getLinkSpeed(data) ==
    IF data = NoFile THEN [ok |-> FALSE, val |-> 0] ELSE Atoi(TrimSpace(data))

\* The tier lookup in which 5000 and 10000 do not borrow each other's
\* colour.
getLinkSpeedColor_NoCross(c, data) ==
    LET r == getLinkSpeed(data)
        speed == r.val
    IN  IF ~r.ok THEN c.ColorNormal
        ELSE IF speed = 100
             THEN (IF c.ColorLink100 # Nil THEN c.ColorLink100 ELSE c.ColorNormal)
        ELSE IF speed = 1000
             THEN (IF c.ColorLink1000 # Nil THEN c.ColorLink1000 ELSE c.ColorNormal)
        ELSE IF speed = 2000
             THEN (IF c.ColorLink2000 # Nil THEN c.ColorLink2000
                   ELSE c.ColorLinkPurpleDefault)
        ELSE IF speed = 2500
             THEN (IF c.ColorLink2500 # Nil THEN c.ColorLink2500 ELSE c.ColorNormal)
        ELSE IF speed = 5000
             THEN (IF c.ColorLink5000 # Nil THEN c.ColorLink5000
                   ELSE c.ColorLinkPurpleDefault)
        ELSE IF speed = 10000
             THEN (IF c.ColorLink10000 # Nil THEN c.ColorLink10000
                   ELSE c.ColorLinkPurpleDefault)
        ELSE c.ColorNormal

\* getLinkSpeedColor
getLinkSpeedColor(c, data) ==
    LET r == getLinkSpeed(data)
        speed == r.val
    IN  IF ~r.ok THEN c.ColorNormal
        ELSE IF speed = 100
             THEN (IF c.ColorLink100 # Nil THEN c.ColorLink100 ELSE c.ColorNormal)
        ELSE IF speed = 1000
             THEN (IF c.ColorLink1000 # Nil THEN c.ColorLink1000 ELSE c.ColorNormal)
        ELSE IF speed = 2000
             THEN (IF c.ColorLink2000 # Nil THEN c.ColorLink2000
                   ELSE c.ColorLinkPurpleDefault)
        ELSE IF speed = 2500
             THEN (IF c.ColorLink2500 # Nil THEN c.ColorLink2500 ELSE c.ColorNormal)
        ELSE IF speed = 5000
             THEN (IF c.ColorLink5000 # Nil THEN c.ColorLink5000
                   ELSE IF c.ColorLink10000 # Nil THEN c.ColorLink10000
                   ELSE c.ColorLinkPurpleDefault)
        ELSE IF speed = 10000
             THEN (IF c.ColorLink10000 # Nil THEN c.ColorLink10000
                   ELSE IF c.ColorLink5000 # Nil THEN c.ColorLink5000
                   ELSE c.ColorLinkPurpleDefault)
        ELSE c.ColorNormal

\* ---- float64 arithmetic of getDynamicColor
\* A positive float64 is kept as its significant binary digits, the most
\* significant first, and the position of the binary point:
\* value = sum of bits[k] * 2^(exp - k).  Zero has no digits.

RECURSIVE NatBits(_)
\* the binary digits of a natural number
NatBits(n) == IF n = 0 THEN <<>> ELSE Append(NatBits(n \div 2), n % 2)

RECURSIVE BitsNat(_, _)
\* the natural number of a sequence of binary digits
BitsNat(bits, acc) ==
    IF bits = <<>> THEN acc ELSE BitsNat(Tail(bits), 2 * acc + Head(bits))

\* leading zeros removed
Normalize(bits, exp) ==
    IF \A k \in DOMAIN bits : bits[k] = 0 THEN [bits |-> <<>>, exp |-> 0]
    ELSE LET first == CHOOSE k \in DOMAIN bits :
                          bits[k] = 1 /\ \A j \in 1 .. k - 1 : bits[j] = 0
         IN  [bits |-> SubSeq(bits, first, Len(bits)), exp |-> exp - (first - 1)]

\* one added at the last digit; carry is the digit that leaves on the left
IncBits(bits) ==
    IF \A k \in DOMAIN bits : bits[k] = 1
    THEN [bits |-> [k \in DOMAIN bits |-> 0], carry |-> 1]
    ELSE LET last == CHOOSE k \in DOMAIN bits :
                         bits[k] = 0 /\ \A j \in k + 1 .. Len(bits) : bits[j] = 1
         IN  [bits |-> [k \in DOMAIN bits |->
                          IF k < last THEN bits[k] ELSE IF k = last THEN 1 ELSE 0],
              carry |-> 0]

\* The float64 nearest to x, ties to even: 53 significant digits are kept.
\* sticky tells that x stands for a value with further non-zero digits.
RoundEven(x, sticky) ==
    IF Len(x.bits) <= 53 THEN x
    ELSE LET keep == SubSeq(x.bits, 1, 53)
             rest == sticky \/ \E k \in 55 .. Len(x.bits) : x.bits[k] = 1
             up == x.bits[54] = 1 /\ (rest \/ keep[53] = 1)
             r == IncBits(keep)
         IN  IF ~up THEN [bits |-> keep, exp |-> x.exp]
             ELSE IF r.carry = 1 THEN [bits |-> <<1>> \o r.bits, exp |-> x.exp + 1]
             ELSE [bits |-> r.bits, exp |-> x.exp]

\* The powers of two below 256, the largest first.
ByteWeights == <<128, 64, 32, 16, 8, 4, 2, 1>>

\* Binary digits in groups of eight, as numbers below 256, and back.
BitsToBytes(bits) ==
    [j \in 1 .. Len(bits) \div 8 |->
        LET b == SubSeq(bits, 8 * j - 7, 8 * j)
        IN  b[1] * 128 + b[2] * 64 + b[3] * 32 + b[4] * 16
            + b[5] * 8 + b[6] * 4 + b[7] * 2 + b[8]]

BytesToBits(bytes) ==
    [i \in 1 .. 8 * Len(bytes) |->
        (bytes[((i - 1) \div 8) + 1] \div ByteWeights[((i - 1) % 8) + 1]) % 2]

RECURSIVE DivBytes(_, _, _, _)
\* The first 8 * k binary digits of r / d after the binary point, eight
\* at a time, 0 <= r < d < 2^23, and the remainder left.
DivBytes(r, d, k, out) ==
    IF k = 0 THEN [bytes |-> out, rem |-> r]
    ELSE DivBytes((256 * r) % d, d, k - 1, Append(out, (256 * r) \div d))

\* float64(n) / float64(d) for integers 0 < n < d < 2^23: 96 digits of
\* the quotient hold its first 54 significant ones.
FDiv(n, d) ==
    LET q == DivBytes(n, d, 12, <<>>)
    IN  RoundEven(Normalize(BytesToBits(q.bytes), 0), q.rem # 0)

RECURSIVE MulBytes(_, _, _, _)
\* bytes * m, from the last group on; a group is added on the left
MulBytes(bytes, m, carry, out) ==
    IF bytes = <<>> THEN <<carry>> \o out
    ELSE LET n == Len(bytes)
             t == bytes[n] * m + carry
         IN  MulBytes(SubSeq(bytes, 1, n - 1), m, t \div 256, <<t % 256>> \o out)

\* x * float64(m) for an integer 0 < m <= 256
FMul(x, m) ==
    LET pad == (8 - (Len(x.bits) % 8)) % 8
        padded == [k \in 1 .. pad |-> 0] \o x.bits
        pb == BytesToBits(MulBytes(BitsToBytes(padded), m, 0, <<>>))
    IN  RoundEven(Normalize(pb, x.exp + Len(pb) - Len(x.bits)), FALSE)

\* The integer part and the digits after the binary point of x.
FixInt(x) ==
    IF x.exp <= 0 THEN 0
    ELSE IF x.exp <= Len(x.bits) THEN BitsNat(SubSeq(x.bits, 1, x.exp), 0)
    ELSE BitsNat(x.bits \o [k \in 1 .. x.exp - Len(x.bits) |-> 0], 0)

FixFrac(x) ==
    IF x.exp <= 0 THEN [k \in 1 .. 0 - x.exp |-> 0] \o x.bits
    ELSE SubSeq(x.bits, x.exp + 1, Len(x.bits))

\* float64(c) + x, or float64(c) - x when neg, for an integer c >= 0 and
\* a result that is not negative.
FAdd(c, x, neg) ==
    LET frac == FixFrac(x)
        whole == \A k \in DOMAIN frac : frac[k] = 0
        int == IF ~neg THEN c + FixInt(x)
               ELSE IF whole THEN c - FixInt(x)
               ELSE c - FixInt(x) - 1
        rest == IF neg /\ ~whole
                THEN IncBits([k \in DOMAIN frac |-> 1 - frac[k]]).bits
                ELSE frac
    IN  RoundEven(Normalize(NatBits(int) \o rest, Len(NatBits(int))), FALSE)

\* One channel of getDynamicColor: int(float64(low) + percentage *
\* float64(high - low)) with percentage = num / den clamped to [0, 1],
\* den # 0, every operation rounded to float64 (no fused multiply-add,
\* as the amd64 compiler emits it); 0 <= low, high <= 256 and
\* |den| < 2^23.
DynamicChannel(low, high, num, den) ==
    LET n == IF den > 0 THEN num ELSE 0 - num
        d == IF den > 0 THEN den ELSE 0 - den
    IN  IF n <= 0 \/ high = low THEN low
        ELSE IF n >= d THEN high
        ELSE FixInt(FAdd(low,
                         FMul(FDiv(n, d), IF high > low THEN high - low ELSE low - high),
                         high < low))

\* getDynamicColor
getDynamicColor(c, data) ==
    LET r == getLinkSpeed(data)
        lo == c.CheckLinkSpeedDynamicSpeedLow
        hi == c.CheckLinkSpeedDynamicSpeedHigh
        cl == c.CheckLinkSpeedDynamicColorLow
        ch == c.CheckLinkSpeedDynamicColorHigh
    IN  IF ~r.ok \/ hi = lo THEN c.ColorNormal
        ELSE RGB(DynamicChannel(cl.R, ch.R, r.val - lo, hi - lo),
                 DynamicChannel(cl.G, ch.G, r.val - lo, hi - lo),
                 DynamicChannel(cl.B, ch.B, r.val - lo, hi - lo))

\* The normal colour with the static tier colour put first.
getNormalColor_StaticFirst(c, data) ==
    IF c.CheckLinkSpeed THEN getLinkSpeedColor(c, data)
    ELSE IF c.CheckLinkSpeedDynamic THEN getDynamicColor(c, data)
    ELSE c.ColorNormal

\* getNormalColor
getNormalColor(c, data) ==
    IF c.CheckLinkSpeedDynamic THEN getDynamicColor(c, data)
    ELSE IF c.CheckLinkSpeed THEN getLinkSpeedColor(c, data)
    ELSE c.ColorNormal

\* Results of the gateway check of a tick: `ip route` gives no default
\* gateway, the gateway does not answer the ping, the gateway answers.
GatewayResults == {"nogateway", "noreply", "reply"}

\* netmon.Run without the test for a configuration that asks for no check.
netRun_start_NoEarlyReturn(i, exists, writeOk) ==
    /\ netPc[i] = "start"
    /\ IF ~exists \/ ~writeOk
       THEN /\ netPc' = [netPc EXCEPT ![i] = "done"]
            /\ netRet' = [netRet EXCEPT ![i] = "error"]
            /\ UNCHANGED <<netLed, netWriters>>
       ELSE /\ netLed' = [trigger |-> netdev,
                          device_name |-> ncfg.Interfaces[i],
                          link |-> IntToStr(1),
                          tx |-> IntToStr(ncfg.BlinkTx),
                          rx |-> IntToStr(ncfg.BlinkRx),
                          interval |-> IntToStr(ncfg.BlinkInterval),
                          color |-> ColorString(ncfg.ColorNormal),
                          brightness |-> IntToStr(ncfg.BrightnessLed)]
            /\ netWriters' = netWriters \cup {i}
            /\ netPc' = [netPc EXCEPT ![i] =
                            IF ncfg.CheckInterval > 0 THEN "select" ELSE "panic"]
            /\ netRet' = netRet
    /\ UNCHANGED <<ctxDone, ncfg, netGw, netProbe, netSpeed>>
    /\ UNCHANGED <<diskVars, lockVars, initVars>>

\* netmon.Run of instance i up to the creation of the ticker: the no-op
\* return, the LED's existence (exists), the attribute writes (writeOk:
\* the first write succeeds) and time.NewTicker, which panics on a period
\* that is not positive.
netRun_start(i, exists, writeOk) ==
    /\ netPc[i] = "start"
    /\ IF /\ ~ncfg.CheckGatewayConnectivity /\ ~ncfg.CheckLinkSpeed
          /\ ~ncfg.CheckLinkSpeedDynamic
       THEN /\ netPc' = [netPc EXCEPT ![i] = "done"]
            /\ netRet' = [netRet EXCEPT ![i] = "nil"]
            /\ UNCHANGED <<netLed, netWriters>>
       ELSE IF ~exists \/ ~writeOk
       THEN /\ netPc' = [netPc EXCEPT ![i] = "done"]
            /\ netRet' = [netRet EXCEPT ![i] = "error"]
            /\ UNCHANGED <<netLed, netWriters>>
       ELSE /\ netLed' = [trigger |-> netdev,
                          device_name |-> ncfg.Interfaces[i],
                          link |-> IntToStr(1),
                          tx |-> IntToStr(ncfg.BlinkTx),
                          rx |-> IntToStr(ncfg.BlinkRx),
                          interval |-> IntToStr(ncfg.BlinkInterval),
                          color |-> ColorString(ncfg.ColorNormal),
                          brightness |-> IntToStr(ncfg.BrightnessLed)]
            /\ netWriters' = netWriters \cup {i}
            /\ netPc' = [netPc EXCEPT ![i] =
                            IF ncfg.CheckInterval > 0 THEN "select" ELSE "panic"]
            /\ netRet' = netRet
    /\ UNCHANGED <<ctxDone, ncfg, netGw, netProbe, netSpeed>>
    /\ UNCHANGED <<diskVars, lockVars, initVars>>

\* netmon.Run, `case <-ctx.Done(): return nil`
netRun_done(i) ==
    /\ netPc[i] = "select" /\ ctxDone
    /\ netPc' = [netPc EXCEPT ![i] = "done"]
    /\ netRet' = [netRet EXCEPT ![i] = "nil"]
    /\ UNCHANGED <<ctxDone, ncfg, netGw, netLed, netWriters, netProbe, netSpeed>>
    /\ UNCHANGED <<diskVars, lockVars, initVars>>

\* The gateway check with a failure that sticks: gwConn never returns to
\* true.
netRun_tick_Latched(i, gw) ==
    /\ netPc[i] = "select"
    /\ netPc' = [netPc EXCEPT ![i] = "color"]
    /\ netGw' = [netGw EXCEPT ![i] = IF ncfg.CheckGatewayConnectivity
                                      THEN netGw[i] /\ gw = "reply" ELSE netGw[i]]
    /\ netProbe' = [netProbe EXCEPT ![i] = IF ncfg.CheckGatewayConnectivity
                                            THEN gw ELSE "none"]
    /\ UNCHANGED <<ctxDone, ncfg, netRet, netLed, netWriters, netSpeed>>
    /\ UNCHANGED <<diskVars, lockVars, initVars>>

\* netmon.Run, `case <-ticker.C:` up to the end of the gateway check
netRun_tick(i, gw) ==
    /\ netPc[i] = "select"
    /\ netPc' = [netPc EXCEPT ![i] = "color"]
    /\ netGw' = [netGw EXCEPT ![i] = IF ncfg.CheckGatewayConnectivity
                                      THEN gw = "reply" ELSE netGw[i]]
    /\ netProbe' = [netProbe EXCEPT ![i] = IF ncfg.CheckGatewayConnectivity
                                            THEN gw ELSE "none"]
    /\ UNCHANGED <<ctxDone, ncfg, netRet, netLed, netWriters, netSpeed>>
    /\ UNCHANGED <<diskVars, lockVars, initVars>>

\* The colour write with the link-speed colour put before the gateway's.
netRun_color_SpeedFirst(i, data) ==
    /\ netPc[i] = "color"
    /\ netLed' = [netLed EXCEPT !.color =
                    ColorString(IF ~netGw[i] /\ ~ncfg.CheckLinkSpeedDynamic
                                             /\ ~ncfg.CheckLinkSpeed
                                THEN ncfg.ColorGatewayUnreachable
                                ELSE getNormalColor(ncfg, data))]
    /\ netWriters' = netWriters \cup {i}
    /\ netPc' = [netPc EXCEPT ![i] = "select"]
    /\ netSpeed' = [netSpeed EXCEPT ![i] = data]
    /\ UNCHANGED <<ctxDone, ncfg, netGw, netRet, netProbe>>
    /\ UNCHANGED <<diskVars, lockVars, initVars>>

\* netmon.Run, the colour write that ends the tick; data is the content
\* of the interface's speed attribute.
netRun_color(i, data) ==
    /\ netPc[i] = "color"
    /\ netLed' = [netLed EXCEPT !.color =
                    ColorString(IF ~netGw[i] THEN ncfg.ColorGatewayUnreachable
                                ELSE getNormalColor(ncfg, data))]
    /\ netWriters' = netWriters \cup {i}
    /\ netPc' = [netPc EXCEPT ![i] = "select"]
    /\ netSpeed' = [netSpeed EXCEPT ![i] = data]
    /\ UNCHANGED <<ctxDone, ncfg, netGw, netRet, netProbe>>
    /\ UNCHANGED <<diskVars, lockVars, initVars>>

\* The signal handler of main calls cancel().
Cancel ==
    /\ ~ctxDone
    /\ ctxDone' = TRUE
    /\ UNCHANGED netVars
    /\ UNCHANGED <<diskVars, lockVars, initVars>>

\* ------------------------------------------------------- Run, startup
\* ledMap := []string{"disk1", ..., "disk8"}
ledMap == [i \in 1 .. 8 |-> <<"d", "i", "s", "k">> \o IntToStr(i)]

AtaKey(n) == <<"a", "t", "a">> \o IntToStr(n)

HctlKey(n) == IntToStr(n) \o <<":", "0", ":", "0", ":", "0">>

\* The product-name prefix of the reordered models.
DXP6800 == <<"D", "X", "P", "6", "8", "0", "0">>

\* Marker of an external command that failed.
CmdFailed == <<"<", "f", "a", "i", "l", "e", "d", ">">>

\* getProductName: the trimmed output of dmidecode, "" when it fails
getProductName(mach) ==
    IF mach.dmidecode = CmdFailed THEN <<>> ELSE TrimSpace(mach.dmidecode)

\* enumerateDisks: the key -> device map of the configured method; err
\* when /sys/block cannot be read or lsblk fails.  Another method gives an
\* empty map and no error.
enumerateDisks(c, mach) ==
    IF c.MappingMethod \in {"ata", "hctl", "serial"}
    THEN [err |-> ~mach.enumOk, devMap |-> IF mach.enumOk THEN mach.devMap ELSE <<>>]
    ELSE [err |-> FALSE, devMap |-> <<>>]

\* The slot keys without the model-specific order.
SlotKeys_NoReorder(c, mach) ==
    IF c.MappingMethod = "ata"
    THEN [err |-> FALSE,
          keys |-> <<AtaKey(1), AtaKey(2), AtaKey(3), AtaKey(4),
                     AtaKey(5), AtaKey(6), AtaKey(7), AtaKey(8)>>]
    ELSE IF c.MappingMethod = "hctl"
    THEN [err |-> FALSE,
          keys |-> <<HctlKey(0), HctlKey(1), HctlKey(2), HctlKey(3),
                     HctlKey(4), HctlKey(5), HctlKey(6), HctlKey(7)>>]
    ELSE IF c.MappingMethod = "serial"
    THEN (IF mach.serialEnv # <<>>
          THEN [err |-> FALSE, keys |-> Fields(mach.serialEnv)]
          ELSE [err |-> TRUE, keys |-> <<>>])
    ELSE [err |-> TRUE, keys |-> <<>>]

\* The slot keys with a missing serial list taken as an empty list.
SlotKeys_SerialOptional(c, mach) ==
    IF c.MappingMethod = "ata"
    THEN [err |-> FALSE,
          keys |-> IF getProductName(mach) # <<>>
                      /\ HasPrefix(getProductName(mach), DXP6800)
                   THEN <<AtaKey(3), AtaKey(4), AtaKey(5), AtaKey(6),
                          AtaKey(1), AtaKey(2)>>
                   ELSE <<AtaKey(1), AtaKey(2), AtaKey(3), AtaKey(4),
                          AtaKey(5), AtaKey(6), AtaKey(7), AtaKey(8)>>]
    ELSE IF c.MappingMethod = "hctl"
    THEN [err |-> FALSE,
          keys |-> IF getProductName(mach) # <<>>
                      /\ HasPrefix(getProductName(mach), DXP6800)
                   THEN <<HctlKey(2), HctlKey(3), HctlKey(4), HctlKey(5),
                          HctlKey(0), HctlKey(1)>>
                   ELSE <<HctlKey(0), HctlKey(1), HctlKey(2), HctlKey(3),
                          HctlKey(4), HctlKey(5), HctlKey(6), HctlKey(7)>>]
    ELSE IF c.MappingMethod = "serial"
    THEN [err |-> FALSE, keys |-> Fields(mach.serialEnv)]
    ELSE [err |-> TRUE, keys |-> <<>>]

\* initializeDisks, `switch m.cfg.MappingMethod`: the slot keys, or err
SlotKeys(c, mach) ==
    IF c.MappingMethod = "ata"
    THEN [err |-> FALSE,
          keys |-> IF getProductName(mach) # <<>>
                      /\ HasPrefix(getProductName(mach), DXP6800)
                   THEN <<AtaKey(3), AtaKey(4), AtaKey(5), AtaKey(6),
                          AtaKey(1), AtaKey(2)>>
                   ELSE <<AtaKey(1), AtaKey(2), AtaKey(3), AtaKey(4),
                          AtaKey(5), AtaKey(6), AtaKey(7), AtaKey(8)>>]
    ELSE IF c.MappingMethod = "hctl"
    THEN [err |-> FALSE,
          keys |-> IF getProductName(mach) # <<>>
                      /\ HasPrefix(getProductName(mach), DXP6800)
                   THEN <<HctlKey(2), HctlKey(3), HctlKey(4), HctlKey(5),
                          HctlKey(0), HctlKey(1)>>
                   ELSE <<HctlKey(0), HctlKey(1), HctlKey(2), HctlKey(3),
                          HctlKey(4), HctlKey(5), HctlKey(6), HctlKey(7)>>]
    ELSE IF c.MappingMethod = "serial"
    THEN (IF mach.serialEnv # <<>>
          THEN [err |-> FALSE, keys |-> Fields(mach.serialEnv)]
          ELSE [err |-> TRUE, keys |-> <<>>])
    ELSE [err |-> TRUE, keys |-> <<>>]

\* The attributes of an LED no monitor has written yet.
LedUntouched == [trigger |-> "", invert |-> <<>>, delay_on |-> <<>>,
                 delay_off |-> <<>>, brightness |-> <<>>]

\* The attributes initializeDisks writes to an existing LED first.
LedOneshot(c) == [trigger |-> "oneshot", invert |-> IntToStr(1),
                  delay_on |-> IntToStr(100), delay_off |-> IntToStr(100),
                  brightness |-> IntToStr(c.BrightnessDiskLeds)]

\* SetBrightness(0); SetTrigger("none") of a slot without a disk
LedOff(c) == [LedOneshot(c) EXCEPT !.brightness = IntToStr(0), !.trigger = "none"]

RECURSIVE InitSlots(_, _, _, _, _, _)
\* initializeDisks, the loop over ledMap from slot i on.  st holds what the
\* loop has written so far: LED attributes and colours, the two maps and
\* the disk table.  An LED that is absent is skipped, and so is one whose
\* trigger cannot be set; a slot whose key has no device, or whose device
\* has no statistics node, is switched off; any other slot is registered.
InitSlots(i, keys, devMap, c, mach, st) ==
    IF i > Len(ledMap) \/ i > Len(keys) THEN st
    ELSE LET ledName == ledMap[i]
             key == keys[i]
             bound == /\ key \in DOMAIN devMap
                      /\ devMap[key] \in mach.nodes
             device == devMap[key]
         IN  IF ledName \notin DOMAIN mach.leds \/ mach.leds[ledName] = "readonly"
             THEN InitSlots(i + 1, keys, devMap, c, mach, st)
             ELSE IF ~bound
             THEN InitSlots(i + 1, keys, devMap, c, mach,
                    [st EXCEPT !.ledInit[ledName] = LedOff(c),
                               !.ledColor[ledName] = ColorString(c.ColorDiskHealth)])
             ELSE InitSlots(i + 1, keys, devMap, c, mach,
                    [ledInit |-> [st.ledInit EXCEPT ![ledName] = LedOneshot(c)],
                     ledColor |-> [st.ledColor EXCEPT
                                      ![ledName] = ColorString(c.ColorDiskHealth)],
                     ledToDevice |-> (ledName :> device) @@ st.ledToDevice,
                     deviceToLED |-> (device :> ledName) @@ st.deviceToLED,
                     disks |-> (device :> NewDiskState(ledName, device)) @@ st.disks])

RECURSIVE ZpoolMapFrom(_, _, _)
\* buildZpoolMapping, the loop over the lines of `zpool status -L`: a
\* line that starts with sd or dm after trimming names a pool device;
\* when the name without its trailing digits is a key of deviceToLED,
\* the name and the stripped name are entered with that LED.
ZpoolMapFrom(lines, d2l, acc) ==
    IF lines = <<>> THEN acc
    ELSE LET line == TrimSpace(Head(lines))
             zpoolDev == Fields(line)[1]
             baseDev == StripTrailingDigits(zpoolDev)
         IN  IF ~HasPrefix(line, <<"s", "d">>) /\ ~HasPrefix(line, <<"d", "m">>)
             THEN ZpoolMapFrom(Tail(lines), d2l, acc)
             ELSE IF baseDev \in DOMAIN d2l
             THEN ZpoolMapFrom(Tail(lines), d2l,
                               (zpoolDev :> d2l[baseDev]) @@
                               (baseDev :> d2l[baseDev]) @@ acc)
             ELSE ZpoolMapFrom(Tail(lines), d2l, acc)

\* What stands for the lines of `zpool status -L` when the command fails.
PoolFailed == <<CmdFailed>>

\* buildZpoolMapping: the map is left empty when the command fails
buildZpoolMapping(mach, d2l) ==
    IF mach.zpool = PoolFailed THEN <<>> ELSE ZpoolMapFrom(mach.zpool, d2l, <<>>)

\* The ticker period of a loop without the default for an interval that
\* is not positive.
TickerPeriod_NoDefault(c, loop) ==
    CASE loop = "smart"  -> c.CheckSmartInterval * 1000
      [] loop = "zpool"  -> c.CheckZpoolInterval * 1000
      [] loop = "online" -> c.CheckDiskOnlineInterval * 1000
      [] loop = "io"     -> c.LedRefreshInterval

\* smartCheckLoop, zpoolCheckLoop, diskOnlineCheckLoop, ioMonitorLoop up
\* to time.NewTicker: the period in milliseconds, the loop's default
\* taking the place of an interval that is not positive
TickerPeriod(c, loop) ==
    CASE loop = "smart"  ->
            (IF c.CheckSmartInterval <= 0 THEN 360 ELSE c.CheckSmartInterval) * 1000
      [] loop = "zpool"  ->
            (IF c.CheckZpoolInterval <= 0 THEN 5 ELSE c.CheckZpoolInterval) * 1000
      [] loop = "online" ->
            (IF c.CheckDiskOnlineInterval <= 0 THEN 5
             ELSE c.CheckDiskOnlineInterval) * 1000
      [] loop = "io"     ->
            IF c.LedRefreshInterval <= 0 THEN 100 ELSE c.LedRefreshInterval

\* Run, the loops it starts: the SMART and pool loops when enabled, the
\* online and I/O loops always; each creates its ticker.
NewTickers(c) ==
    [loop \in {"online", "io"} \cup (IF c.CheckSmart THEN {"smart"} ELSE {})
                               \cup (IF c.CheckZpool THEN {"zpool"} ELSE {})
        |-> TickerPeriod(c, loop)]

\* Run up to wg.Wait(): initializeDisks, buildZpoolMapping when the pool
\* check is enabled, and the start of the loops.  An error of
\* initializeDisks makes Run return before anything else is done.
Run_start ==
    /\ runPc = "start"
    /\ LET e == enumerateDisks(cfg, machine)
           k == SlotKeys(cfg, machine)
           st == InitSlots(1, k.keys, e.devMap, cfg, machine,
                           [ledInit |-> ledInit, ledColor |-> ledColor,
                            ledToDevice |-> ledToDevice,
                            deviceToLED |-> deviceToLED, disks |-> disks])
       IN  IF e.err \/ k.err
           THEN /\ runPc' = "returned" /\ runRet' = "error"
                /\ UNCHANGED <<mapping, ledInit, ticker, ledColor, ledToDevice,
                               deviceToLED, disks, zpoolLEDMap,
                               pcSmart, pcZpool, pcOnline, pcIo>>
           ELSE /\ runPc' = "running" /\ runRet' = runRet
                /\ mapping' = k.keys
                /\ ledInit' = st.ledInit /\ ledColor' = st.ledColor
                /\ ledToDevice' = st.ledToDevice
                /\ deviceToLED' = st.deviceToLED
                /\ disks' = st.disks
                /\ zpoolLEDMap' = IF cfg.CheckZpool
                                  THEN buildZpoolMapping(machine, st.deviceToLED)
                                  ELSE <<>>
                /\ pcSmart' = IF cfg.CheckSmart THEN "idle" ELSE "off"
                /\ pcZpool' = IF cfg.CheckZpool THEN "idle" ELSE "off"
                /\ pcOnline' = "idle" /\ pcIo' = "idle"
                /\ ticker' = NewTickers(cfg)
    /\ UNCHANGED <<cfg, machine, faultedLogged, ledShot, statFile,
                   smartRem, smartCur, zDev, zState, zLed, zColor,
                   onlineRem, onlineCur, ioRem, ioCur, ioLast>>
    /\ UNCHANGED <<ctxDone, netVars, lockVars, failLog, parseVars>>

\* smartCheckLoop, `case <-ctx.Done(): return`
smartCheckLoop_done ==
    /\ pcSmart = "idle" /\ ctxDone
    /\ pcSmart' = "exit"
    /\ UNCHANGED <<mainVars, monitorVars, disks, faultedLogged, ledColor, ledShot,
                   statFile, smartRem, smartCur, zpoolVars, onlineVars, ioVars>>

\* zpoolCheckLoop, `case <-ctx.Done(): return`
zpoolCheckLoop_done ==
    /\ pcZpool = "idle" /\ ctxDone
    /\ pcZpool' = "exit"
    /\ UNCHANGED <<mainVars, monitorVars, disks, faultedLogged, ledColor, ledShot,
                   statFile, zDev, zState, zLed, zColor, smartVars, onlineVars, ioVars>>

\* diskOnlineCheckLoop, `case <-ctx.Done(): return`
diskOnlineCheckLoop_done ==
    /\ pcOnline = "idle" /\ ctxDone
    /\ pcOnline' = "exit"
    /\ UNCHANGED <<mainVars, monitorVars, disks, faultedLogged, ledColor, ledShot,
                   statFile, onlineRem, onlineCur, smartVars, zpoolVars, ioVars>>

\* The I/O loop taking the cancelled context for one more reason to wait.
ioMonitorLoop_done_Ignored ==
    /\ pcIo = "idle" /\ ctxDone
    /\ pcIo' = "idle"
    /\ UNCHANGED <<mainVars, monitorVars, disks, faultedLogged, ledColor, ledShot,
                   statFile, ioRem, ioCur, ioLast, smartVars, zpoolVars, onlineVars>>

\* ioMonitorLoop, `case <-ctx.Done(): return`
ioMonitorLoop_done ==
    /\ pcIo = "idle" /\ ctxDone
    /\ pcIo' = "exit"
    /\ UNCHANGED <<mainVars, monitorVars, disks, faultedLogged, ledColor, ledShot,
                   statFile, ioRem, ioCur, ioLast, smartVars, zpoolVars, onlineVars>>

\* Run, `wg.Wait(); return nil`: every loop it started has returned
Run_return ==
    /\ runPc = "running"
    /\ \A pc \in {pcSmart, pcZpool, pcOnline, pcIo} : pc \in {"off", "exit"}
    /\ runPc' = "returned" /\ runRet' = "nil"
    /\ UNCHANGED <<machine, mapping, ledInit, ticker, failLog, parseVars>>
    /\ UNCHANGED <<diskVars, ctxDone, netVars, lockVars>>

\* --------------------------------------------------- per-disk lock protocol
\* The loops that take diskState.mu (checkZpool never does).
LockLoops == {"smart", "online", "io"}

diskRest == <<monitorVars, faultedLogged, ledColor, ledShot, statFile,
              smartVars, zpoolVars, onlineVars, ioVars>>

\* state.mu.RLock() at the top of an iteration of loop L over disk d: it
\* waits while a writer holds the lock.
lock_RLock(L, d) ==
    /\ lkPc[L] = "idle" /\ d \in DOMAIN disks
    /\ muW[d] = "none"
    /\ muR' = [muR EXCEPT ![d] = @ \cup {L}]
    /\ lkPc' = [lkPc EXCEPT ![L] = "rlocked"]
    /\ lkDev' = [lkDev EXCEPT ![L] = d]
    /\ UNCHANGED <<muW, disks, diskRest, ctxDone, netVars, initVars>>

\* The read of the flags and state.mu.RUnlock(); `if !isHealthy { continue }`
lock_RUnlock(L) ==
    /\ lkPc[L] = "rlocked"
    /\ muR' = [muR EXCEPT ![lkDev[L]] = @ \ {L}]
    /\ IF IsHealthy(disks[lkDev[L]])
       THEN lkPc' = [lkPc EXCEPT ![L] = "check"] /\ lkDev' = lkDev
       ELSE lkPc' = [lkPc EXCEPT ![L] = "idle"] /\ lkDev' = [lkDev EXCEPT ![L] = <<>>]
    /\ UNCHANGED <<muW, disks, diskRest, ctxDone, netVars, initVars>>

\* The check made outside the lock: smartctl, os.Stat, os.ReadFile and the
\* comparison; hit says that the loop goes on to update the disk entry.
lock_Check(L, hit) ==
    /\ lkPc[L] = "check"
    /\ IF hit
       THEN lkPc' = [lkPc EXCEPT ![L] = "wantlock"] /\ lkDev' = lkDev
       ELSE lkPc' = [lkPc EXCEPT ![L] = "idle"] /\ lkDev' = [lkDev EXCEPT ![L] = <<>>]
    /\ UNCHANGED <<muW, muR, disks, diskRest, ctxDone, netVars, initVars>>

\* A Lock that does not wait for the holders of the lock.
lock_Lock_NoWait(L) ==
    /\ lkPc[L] = "wantlock"
    /\ muW' = [muW EXCEPT ![lkDev[L]] = L]
    /\ lkPc' = [lkPc EXCEPT ![L] = "locked"]
    /\ UNCHANGED <<muR, lkDev, disks, diskRest, ctxDone, netVars, initVars>>

\* state.mu.Lock(): it waits while a writer or a reader holds the lock.
lock_Lock(L) ==
    /\ lkPc[L] = "wantlock"
    /\ muW[lkDev[L]] = "none" /\ muR[lkDev[L]] = {}
    /\ muW' = [muW EXCEPT ![lkDev[L]] = L]
    /\ lkPc' = [lkPc EXCEPT ![L] = "locked"]
    /\ UNCHANGED <<muR, lkDev, disks, diskRest, ctxDone, netVars, initVars>>

\* The assignment between Lock and Unlock: smartFailed = true in checkSMART,
\* offline = true in checkDiskOnline, lastStat = newStatStr in checkIO.
lock_Write(L, newStat) ==
    /\ lkPc[L] = "locked"
    /\ disks' = IF L = "smart"
                THEN [disks EXCEPT ![lkDev[L]].smartFailed = TRUE]
                ELSE IF L = "online"
                THEN [disks EXCEPT ![lkDev[L]].offline = TRUE]
                ELSE [disks EXCEPT ![lkDev[L]].lastStat = newStat]
    /\ lkPc' = [lkPc EXCEPT ![L] = "written"]
    /\ UNCHANGED <<muW, muR, lkDev, diskRest, ctxDone, netVars, initVars>>

\* state.mu.Unlock()
lock_Unlock(L) ==
    /\ lkPc[L] = "written"
    /\ muW' = [muW EXCEPT ![lkDev[L]] = "none"]
    /\ lkPc' = [lkPc EXCEPT ![L] = "idle"]
    /\ lkDev' = [lkDev EXCEPT ![L] = <<>>]
    /\ UNCHANGED <<muR, disks, diskRest, ctxDone, netVars, initVars>>

\* ------------------------------------------------------- specifications
\* The SMART loop, smartctl returning a code of codes.
SmartLoop(codes) ==
    \/ checkSMART_begin
    \/ checkSMART_read
    \/ \E ret \in codes : checkSMART_run(ret)
    \/ checkSMART_write
    \/ checkSMART_end

\* The pool loop, the status output made of lines of lines.
ZpoolLoop(lines) ==
    \/ checkZpool_begin
    \/ checkZpool_fail
    \/ checkZpool_output
    \/ \E rawLine \in lines : checkZpool_line(rawLine)
    \/ checkZpool_switch
    \/ checkZpool_end

OnlineLoop ==
    \/ checkDiskOnline_begin
    \/ checkDiskOnline_read
    \/ checkDiskOnline_stat
    \/ checkDiskOnline_write
    \/ checkDiskOnline_end

IoLoop ==
    \/ checkIO_begin
    \/ checkIO_read
    \/ checkIO_stat
    \/ checkIO_shot
    \/ checkIO_end

\* Inputs of the four-loop specification: a healthy and a failing code with
\* and without the standby bit; a healthy, a failed and an unnamed state of
\* the pool member, and a line of a device that is on no slot.
SomeCodes == {0, 32, 2, 34}
SomeLines == {StatusLine(sda1, ONLINE), StatusLine(sda1, FAULTED),
              StatusLine(sda1, INUSE), StatusLine(sdc1, FAULTED)}

\* All four loops of Run on one disk, interleaved step by step.
Next ==
    \/ EnvStat
    \/ SmartLoop(SomeCodes)
    \/ ZpoolLoop(SomeLines)
    \/ OnlineLoop
    \/ IoLoop

Spec == Init /\ [][Next]_vars

\* The SMART loop on two disks, every exit code.
NextSmart == SmartLoop(ExitCodes)

SpecSmart == InitTwo /\ [][NextSmart]_vars

\* The loops that write colours, on one disk, every status line.
NextColor ==
    \/ EnvStat
    \/ SmartLoop(SomeCodes)
    \/ ZpoolLoop(StatusLines)
    \/ OnlineLoop

SpecColor == Init /\ [][NextColor]_vars

\* The I/O loop and the loops it shares the disk flags with, on two disks.
NextIo ==
    \/ EnvStat
    \/ OnlineLoop
    \/ IoLoop

SpecIo == InitTwo /\ [][NextIo]_vars

\* Inputs of the two-disk specification: smartctl reports a failure, the
\* pool reports the member on slot 1 as failed.
BindCodes == {2}
BindLines == {StatusLine(sda1, FAULTED)}

\* Two disks present at start, the pool member mapped, every indication
\* with its own colour.
InitBind ==
    /\ InitTwo
    /\ cfg = DistinctColors
    /\ zpoolLEDMap # <<>>
    /\ statFile = [d \in {sda, sdb} |-> <<"1", " ", "0">>]

\* All four loops of Run on two disks, either of which can be pulled.
NextBind ==
    \/ EnvRemove
    \/ SmartLoop(BindCodes)
    \/ ZpoolLoop(BindLines)
    \/ OnlineLoop
    \/ IoLoop

SpecBind == InitBind /\ [][NextBind]_vars

\* One network monitor instance; its inputs are the results of the
\* gateway check (gws) and the contents of the speed attribute (datas).
NetLoop(i, gws, datas) ==
    \/ \E exists \in BOOLEAN, writeOk \in BOOLEAN : netRun_start(i, exists, writeOk)
    \/ \E gw \in gws : netRun_tick(i, gw)
    \/ \E data \in datas : netRun_color(i, data)
    \/ netRun_done(i)

\* Interface lists of the configuration file: none, one, two, and one name
\* listed twice.
InterfaceLists == {<<>>, <<eth0>>, <<eth1>>, <<eth0, eth1>>, <<eth0, eth0>>}

\* Network configurations: the monitor enabled or not, each interface
\* list, the gateway, static and dynamic link-speed checks on or off.
NetConfigs ==
    {[NetDefaults EXCEPT !.Enable = en, !.Interfaces = l,
                         !.CheckGatewayConnectivity = g, !.CheckLinkSpeed = ls,
                         !.CheckLinkSpeedDynamic = dy] :
        en \in BOOLEAN, l \in InterfaceLists, g \in BOOLEAN, ls \in BOOLEAN,
        dy \in BOOLEAN}

\* Contents of /sys/class/net/<iface>/speed.
SomeSpeeds == {<<"1", "0", "0", "0", "\n">>, <<"2", "0", "0", "0", "\n">>, NoFile}

\* main, after its loop over cfg.NetworkMonitor.Interfaces: one goroutine
\* per list entry when the network monitor is enabled, each about to call
\* netmon.Run.
MainStarted(c) ==
    /\ ncfg = c
    /\ netPc = [i \in (IF c.Enable THEN DOMAIN c.Interfaces ELSE {}) |-> "start"]
    /\ netGw = [i \in DOMAIN netPc |-> TRUE]
    /\ netProbe = [i \in DOMAIN netPc |-> "none"]
    /\ netSpeed = [i \in DOMAIN netPc |-> <<>>]
    /\ netRet = [i \in DOMAIN netPc |-> <<>>]
    /\ netLed = NetLedUntouched
    /\ netWriters = {}

\* The network monitors of main; the disk monitor is disabled.
InitNet ==
    /\ ctxDone = FALSE
    /\ \E c \in NetConfigs : MainStarted(c)
    /\ MonitorAt({}) /\ cfg = DefaultColors
    /\ NoLocks /\ Started

NextNet ==
    \/ Cancel
    \/ \E i \in DOMAIN netPc : NetLoop(i, GatewayResults, SomeSpeeds)

SpecNet == InitNet /\ [][NextNet]_vars

\* Content of /sys/class/net/<iface>/speed for a link at n Mb/s.
SpeedFile(n) == IntToStr(n) \o <<"\n">>

\* Speed attributes: each tier, speeds between and beyond the tiers, a
\* link that is down (-1), text that is no number, no file.
LinkSpeeds ==
    {SpeedFile(n) : n \in {100, 1000, 2000, 2500, 5000, 10000,
                           0, 7, 10, 2999, 20000, -1, -1000}}
    \cup {<<"u", "p", "\n">>, NoFile}

\* The colours a configuration file gives to the six speed tiers.
TierColors ==
    [ColorLink100 |-> RGB(255, 255, 0), ColorLink1000 |-> RGB(0, 255, 0),
     ColorLink2000 |-> RGB(0, 128, 255), ColorLink2500 |-> RGB(0, 0, 255),
     ColorLink5000 |-> RGB(255, 0, 255), ColorLink10000 |-> RGB(0, 255, 255)]

\* A configuration in which exactly the tiers of set have a colour.
WithTiers(c, set) ==
    [f \in DOMAIN c |-> IF f \in DOMAIN TierColors
                        THEN (IF f \in set THEN TierColors[f] ELSE Nil)
                        ELSE c[f]]

\* Settings of the dynamic colour: thresholds and the two end colours.
GradientSettings ==
    {[lo |-> 0, hi |-> 10000, cl |-> RGB(255, 0, 0), ch |-> RGB(0, 255, 0)],
     [lo |-> 0, hi |-> 10, cl |-> RGB(0, 5, 255), ch |-> RGB(90, 175, 0)],
     [lo |-> 10000, hi |-> 100, cl |-> RGB(0, 0, 0), ch |-> RGB(255, 255, 255)],
     [lo |-> 1000, hi |-> 1000, cl |-> RGB(255, 0, 0), ch |-> RGB(0, 255, 0)]}

WithGradient(c, g) ==
    [c EXCEPT !.CheckLinkSpeedDynamicSpeedLow = g.lo,
              !.CheckLinkSpeedDynamicSpeedHigh = g.hi,
              !.CheckLinkSpeedDynamicColorLow = g.cl,
              !.CheckLinkSpeedDynamicColorHigh = g.ch]

\* Configurations of one monitored interface.  Without the dynamic
\* colour: every subset of the tier colours with each combination of
\* the other two checks.  With the dynamic colour: every gradient
\* setting, with no tier colour or all of them, and each combination of
\* the other two checks.
LinkConfigs ==
    {[c EXCEPT !.Enable = TRUE, !.Interfaces = <<eth0>>,
               !.CheckGatewayConnectivity = g, !.CheckLinkSpeed = ls,
               !.CheckLinkSpeedDynamic = FALSE] :
        g \in BOOLEAN, ls \in BOOLEAN,
        c \in {WithTiers(NetDefaults, set) : set \in SUBSET DOMAIN TierColors}}
    \cup
    {[c EXCEPT !.Enable = TRUE, !.Interfaces = <<eth0>>,
               !.CheckGatewayConnectivity = g, !.CheckLinkSpeed = ls,
               !.CheckLinkSpeedDynamic = TRUE] :
        g \in BOOLEAN, ls \in BOOLEAN,
        c \in {WithGradient(WithTiers(NetDefaults, set), gs) :
                  set \in {{}, DOMAIN TierColors}, gs \in GradientSettings}}

\* One network monitor with any of these configurations; the disk
\* monitor is disabled.
InitLink ==
    /\ ctxDone = FALSE
    /\ \E c \in LinkConfigs : MainStarted(c)
    /\ MonitorAt({}) /\ cfg = DefaultColors
    /\ NoLocks /\ Started

NextLink ==
    \/ Cancel
    \/ NetLoop(1, {"reply", "noreply"}, LinkSpeeds)

SpecLink == InitLink /\ [][NextLink]_vars

\* ------------------------------------------------------- colour parsing
\* Tokens of a colour setting: integers with and without sign and with
\* leading zeros, inside and outside 0 .. 255, and texts that are no
\* decimal integer.
ColorTokens ==
    {<<"2", "5", "5">>, <<"0">>, <<"6", "4">>, <<"0", "0", "7">>,
     <<"-", "5">>, <<"+", "7">>, <<"3", "0", "0">>,
     <<"a", "b", "c">>, <<"1", "2", "a">>, <<"1", ".", "5">>, <<"-">>}

RECURSIVE Join(_, _)
\* strings.Join
Join(parts, sep) ==
    IF parts = <<>> THEN <<>>
    ELSE IF Len(parts) = 1 THEN parts[1]
    ELSE parts[1] \o sep \o Join(Tail(parts), sep)

\* The numbers of tokens tried: none to one more than a colour has.
TokenCounts == {0, 1, 2, 3, 4}

\* Colour settings: every sequence of that many tokens, separated by one
\* blank or by a tab and blanks, bare or with white space around it.
ColorTexts ==
    LET bare == {Join(ts, sep) :
                    ts \in UNION {[1 .. n -> ColorTokens] : n \in TokenCounts},
                    sep \in {<<" ">>, <<"\t", " ", " ">>}}
    IN  bare \cup {<<" ">> \o t \o <<"\n">> : t \in bare}

\* parseRGB is called with s
parseRGB_call ==
    /\ rgbParsed = Nil
    /\ rgbParsed' = parseRGB(rgbText)
    /\ UNCHANGED <<rgbText, runPc, runRet, machine, mapping, ledInit, ticker,
                   failLog>>
    /\ UNCHANGED <<diskVars, ctxDone, netVars, lockVars>>

\* l.SetColor(c.R, c.G, c.B) with the colour parsed, on an LED whose
\* colour attribute has not been written
SetColor_call ==
    /\ rgbParsed # Nil
    /\ disk1 \in DOMAIN ledColor /\ ledColor[disk1] = <<>>
    /\ SetColor(disk1, rgbParsed)
    /\ UNCHANGED <<monitorVars, disks, faultedLogged, ledShot, statFile,
                   smartVars, zpoolVars, onlineVars, ioVars, mainVars>>

\* One colour setting of a configuration file is about to be parsed and
\* then set on the LED disk1, whose colour attribute is still unwritten;
\* the monitors take no step in this specification.
InitParse ==
    /\ rgbText \in ColorTexts /\ rgbParsed = Nil
    /\ runPc = "running" /\ runRet = <<>>
    /\ machine = <<>> /\ mapping = <<>> /\ ledInit = <<>> /\ ticker = <<>>
    /\ failLog = <<>>
    /\ NoNetwork /\ NoLocks
    /\ cfg = DefaultColors
    /\ disks = <<>> /\ ledToDevice = <<>> /\ deviceToLED = <<>>
    /\ zpoolLEDMap = <<>> /\ faultedLogged = {} /\ statFile = <<>>
    /\ ledColor = [l \in {disk1} |-> <<>>]
    /\ ledShot = [l \in {disk1} |-> <<>>]
    /\ pcSmart = "idle" /\ smartRem = {} /\ smartCur = <<>>
    /\ pcZpool = "idle" /\ zDev = <<>> /\ zState = <<>>
    /\ zLed = <<>> /\ zColor = <<>>
    /\ pcOnline = "idle" /\ onlineRem = {} /\ onlineCur = <<>>
    /\ pcIo = "idle" /\ ioRem = {} /\ ioCur = <<>> /\ ioLast = <<>>

NextParse == parseRGB_call \/ SetColor_call

SpecParse == InitParse /\ [][NextParse]_vars

\* Two disks, the three loops that use the disks' locks about to start an
\* iteration, every lock free.
InitLock ==
    /\ NoNetwork /\ Started /\ MonitorAt({sda, sdb})
    /\ cfg = DefaultColors /\ zpoolLEDMap = <<>>
    /\ statFile = [d \in {sda, sdb} |-> <<"1", " ", "0">>]
    /\ muW = [d \in {sda, sdb} |-> "none"]
    /\ muR = [d \in {sda, sdb} |-> {}]
    /\ lkPc = [L \in LockLoops |-> "idle"]
    /\ lkDev = [L \in LockLoops |-> <<>>]

NextLock ==
    \E L \in LockLoops :
        \/ \E d \in DOMAIN disks : lock_RLock(L, d)
        \/ lock_RUnlock(L)
        \/ \E hit \in BOOLEAN : lock_Check(L, hit)
        \/ lock_Lock(L)
        \/ \E newStat \in StatContents : lock_Write(L, newStat)
        \/ lock_Unlock(L)

SpecLock == InitLock /\ [][NextLock]_vars

\* Serial numbers of the two disks.
serialA == <<"W", "D", "1">>
serialB == <<"W", "D", "2">>

\* Outputs of `dmidecode --string system-product-name`: a reordered model,
\* another model, a name one character short of the prefix, an empty
\* output, and the command missing.
ProductOutputs ==
    {DXP6800 \o <<" ", "P", "r", "o", "\n">>,
     <<"D", "X", "4", "6", "0", "0", " ", "P", "r", "o", "\n">>,
     <<"D", "X", "P", "6", "8", "0", "\n">>,
     <<"\n">>,
     CmdFailed}

\* Values of DISK_SERIAL: unset or empty, two serials, blank, one serial
\* listed twice.
SerialEnvs == {<<>>, serialA \o <<" ">> \o serialB, <<" ">>,
               serialA \o <<" ">> \o serialA}

\* What enumerateDisks finds for a method: no disk, or sda on port 1 and
\* sdb on port 3 (by port name, by address, by serial number).
DevMaps(method) ==
    {<<>>,
     IF method = "ata" THEN (AtaKey(1) :> sda) @@ (AtaKey(3) :> sdb)
     ELSE IF method = "hctl" THEN (HctlKey(0) :> sda) @@ (HctlKey(2) :> sdb)
     ELSE (serialA :> sda) @@ (serialB :> sdb)}

\* The slot LEDs of the appliance: eight, four, eight of which the first
\* rejects writes, or three with the second slot's LED missing.
LedSets ==
    {[i \in 1 .. 8 |-> "ok"], [i \in 1 .. 4 |-> "ok"],
     [i \in 1 .. 8 |-> IF i = 1 THEN "readonly" ELSE "ok"],
     [i \in {1, 3, 4} |-> "ok"]}

\* The appliances Run can start on, for a mapping method.
Machines(method) ==
    {[dmidecode |-> p, serialEnv |-> e, enumOk |-> ok, devMap |-> dm,
      leds |-> [l \in {ledMap[i] : i \in DOMAIN ls} |->
                    ls[CHOOSE i \in DOMAIN ls : ledMap[i] = l]],
      nodes |-> n] :
        p \in ProductOutputs, e \in SerialEnvs, ok \in BOOLEAN,
        dm \in DevMaps(method), ls \in LedSets, n \in {{sda, sdb}, {sda}}}

\* The appliance mach with its pool: the lines `zpool status -L` prints
\* (PoolFailed when the command fails) and, for each mapper device, the
\* names listed in /sys/block/<dm>/slaves.
OnPool(mach, out, sl) == mach @@ [zpool |-> out, slaves |-> sl]

\* The pool of the appliances Run starts on: the status command fails,
\* or the pool has the one member sda1.
RunPoolOutputs == {PoolFailed, <<StatusLine(sda1, ONLINE)>>}

\* The settings Run can be called with.
RunSettings ==
    {[RunDefaults EXCEPT !.Enable = en, !.MappingMethod = mm,
                         !.CheckSmart = cs, !.CheckZpool = cz] :
        en \in BOOLEAN, mm \in {"ata", "hctl", "serial", ""},
        cs \in BOOLEAN, cz \in BOOLEAN}

\* diskmon.Run is about to be called with configuration c on appliance
\* mach: the Monitor's maps are empty, no loop runs, no LED is written.
RunCalled(c, mach) ==
    /\ cfg = c /\ machine = mach
    /\ runPc = "start" /\ runRet = <<>> /\ mapping = <<>> /\ ticker = <<>>
    /\ failLog = <<>>
    /\ NoParse
    /\ ledInit = [l \in DOMAIN mach.leds |-> LedUntouched]
    /\ ledColor = [l \in DOMAIN mach.leds |-> <<>>]
    /\ ledShot = [l \in DOMAIN mach.leds |-> <<>>]
    /\ disks = <<>> /\ ledToDevice = <<>> /\ deviceToLED = <<>>
    /\ zpoolLEDMap = <<>> /\ faultedLogged = {}
    /\ statFile = [d \in {sda, sdb} |->
                    IF d \in mach.nodes THEN <<"1", " ", "0">> ELSE NoFile]
    /\ pcSmart = "off" /\ smartRem = {} /\ smartCur = <<>>
    /\ pcZpool = "off" /\ zDev = <<>> /\ zState = <<>>
    /\ zLed = <<>> /\ zColor = <<>>
    /\ pcOnline = "off" /\ onlineRem = {} /\ onlineCur = <<>>
    /\ pcIo = "off" /\ ioRem = {} /\ ioCur = <<>> /\ ioLast = <<>>

\* Run called with any settings on any appliance; the context can be
\* cancelled before Run has done anything.
InitRun ==
    /\ ctxDone = FALSE
    /\ \E st \in RunSettings : \E mach \in Machines(st.MappingMethod) :
        \E out \in (IF st.CheckZpool THEN RunPoolOutputs ELSE {PoolFailed}) :
            RunCalled(DiskConfig(DefaultColors, st), OnPool(mach, out, <<>>))
    /\ MainStarted(NetDefaults) /\ NoLocks

\* The startup of Run, and its end once the context is cancelled.
NextRun ==
    \/ Run_start
    \/ Cancel
    \/ smartCheckLoop_done
    \/ zpoolCheckLoop_done
    \/ diskOnlineCheckLoop_done
    \/ ioMonitorLoop_done
    \/ Run_return

SpecRun == InitRun /\ [][NextRun]_vars

\* --------------------------------------------------- pool member mapping
\* Lines of a pool status: the pool's name, a mirror, a partition of
\* each disk, a whole disk, a mapper device.
PoolLines ==
    {<<"\t", "t", "a", "n", "k", " ", " ">> \o ONLINE,
     StatusLine(mirror0, ONLINE),
     StatusLine(sda1, ONLINE), StatusLine(sdb1, DEGRADED),
     StatusLine(sda, ONLINE), StatusLine(dm0, ONLINE)}

\* Pool status outputs: one or two of these lines, or the command fails.
PoolOutputs ==
    {PoolFailed} \cup {<<l>> : l \in PoolLines}
    \cup {<<l1, l2>> : l1 \in PoolLines, l2 \in PoolLines}

\* /sys/block/dm-0/slaves: the mapper device lies on sda, on sdb, on sdb
\* and sda, on a device that is no disk of the appliance, or is absent.
SlaveLists ==
    {(dm0 :> <<sda>>), (dm0 :> <<sdb>>), (dm0 :> <<sdb, sda>>),
     (dm0 :> <<sdc1>>), <<>>}

\* Run is called with the pool check enabled on an eight-slot appliance
\* with sda in slot 1 and, on some, sdb in slot 2.
InitPool ==
    /\ ctxDone = FALSE
    /\ \E out \in PoolOutputs, sl \in SlaveLists,
          dm \in {(AtaKey(1) :> sda), (AtaKey(1) :> sda) @@ (AtaKey(2) :> sdb)} :
            RunCalled(DiskConfig(DefaultColors,
                                 [RunDefaults EXCEPT !.CheckZpool = TRUE]),
                      OnPool([dmidecode |-> CmdFailed, serialEnv |-> <<>>,
                              enumOk |-> TRUE, devMap |-> dm,
                              leds |-> [l \in {ledMap[i] : i \in 1 .. 8} |-> "ok"],
                              nodes |-> {sda, sdb}],
                             out, sl))
    /\ MainStarted(NetDefaults) /\ NoLocks

SpecPool == InitPool /\ [][NextRun]_vars

\* ----------------------------------------------------- ticker periods
\* Values of the three check intervals, in seconds: zero, negative, one
\* second, three minutes.
TickSeconds == {0, -1, 1, 180}

\* Values of LED_REFRESH_INTERVAL, in milliseconds: zero, negative, 0.05 s
\* and 0.5 s.
TickMillis == {0, -100, 50, 500}

\* Run is called with all four loops enabled and each combination of
\* these intervals, on the appliance with sda in slot 1.
InitTick ==
    /\ ctxDone = FALSE
    /\ \E sm \in TickSeconds, zp \in TickSeconds, on \in TickSeconds,
          io \in TickMillis :
            RunCalled(DiskConfig(DefaultColors,
                                 [RunDefaults EXCEPT !.CheckZpool = TRUE,
                                                     !.CheckSmartInterval = sm,
                                                     !.CheckZpoolInterval = zp,
                                                     !.CheckDiskOnlineInterval = on,
                                                     !.LedRefreshInterval = io]),
                      OnPool([dmidecode |-> CmdFailed, serialEnv |-> <<>>,
                              enumOk |-> TRUE, devMap |-> (AtaKey(1) :> sda),
                              leds |-> [l \in {ledMap[i] : i \in 1 .. 8} |-> "ok"],
                              nodes |-> {sda}],
                             PoolFailed, <<>>))
    /\ MainStarted(NetDefaults) /\ NoLocks

SpecTick == InitTick /\ [][NextRun]_vars

\* Inputs of the shutdown specification: a healthy and a failing SMART
\* code, a failure report of the pool member, a gateway that answers or
\* not, one link speed.
StopCodes == {0, 2}
StopLines == {StatusLine(sda1, FAULTED)}
StopGateways == {"reply", "noreply"}
StopSpeeds == {<<"1", "0", "0", "0", "\n">>}

\* The appliance of the shutdown specification: sda on port 1, all LEDs.
StopMachine ==
    [dmidecode |-> CmdFailed, serialEnv |-> <<>>, enumOk |-> TRUE,
     devMap |-> (AtaKey(1) :> sda),
     leds |-> [l \in {ledMap[i] : i \in 1 .. 8} |-> "ok"],
     nodes |-> {sda}]

\* What main starts: diskmon.Run with a subset of its optional loops,
\* and netmon.Run for each listed interface with the gateway check on.
\* The optional loops vary while no interface is listed; beside an
\* interface run the two loops that cannot be switched off.
StopSetups ==
    {[CheckSmart |-> cs, CheckZpool |-> cz, Interfaces |-> <<>>] :
        cs \in BOOLEAN, cz \in BOOLEAN}
    \cup {[CheckSmart |-> FALSE, CheckZpool |-> FALSE, Interfaces |-> <<eth0>>]}

\* main has called diskmon.Run and netmon.Run, nothing has run yet.
InitStop ==
    /\ ctxDone = FALSE
    /\ \E su \in StopSetups :
        \E out \in (IF su.CheckZpool THEN RunPoolOutputs ELSE {PoolFailed}) :
        /\ RunCalled(DiskConfig(DefaultColors,
                                [RunDefaults EXCEPT !.CheckSmart = su.CheckSmart,
                                                    !.CheckZpool = su.CheckZpool]),
                     OnPool(StopMachine, out, <<>>))
        /\ MainStarted([NetDefaults EXCEPT !.Enable = TRUE,
                                           !.Interfaces = su.Interfaces,
                                           !.CheckGatewayConnectivity = TRUE])
    /\ NoLocks

\* The monitors of main from their start to their return.
NextStop ==
    \/ Cancel
    \/ EnvRemove
    \/ Run_start
    \/ SmartLoop(StopCodes) \/ smartCheckLoop_done
    \/ ZpoolLoop(StopLines) \/ zpoolCheckLoop_done
    \/ OnlineLoop \/ diskOnlineCheckLoop_done
    \/ IoLoop \/ ioMonitorLoop_done
    \/ Run_return
    \/ \E i \in DOMAIN netPc : NetLoop(i, StopGateways, StopSpeeds)

\* A loop takes the `case <-ctx.Done()` of its select.
LoopReturns ==
    \/ smartCheckLoop_done
    \/ zpoolCheckLoop_done
    \/ diskOnlineCheckLoop_done
    \/ ioMonitorLoop_done
    \/ \E i \in DOMAIN netPc : netRun_done(i)

\* The steps of checkZpool other than those of its range over the lines.
ZpoolSteps ==
    \/ checkZpool_begin
    \/ checkZpool_fail
    \/ checkZpool_output
    \/ checkZpool_switch

\* Scheduling: every goroutine keeps running (its checks and the commands
\* it runs return), the output of `zpool status` is finite so that the
\* range over its lines ends, and a select whose ctx.Done() case is ready
\* each time it is reached takes that case sooner or later, the choice
\* among ready cases being random.  A loop returns only once, so strong
\* fairness of LoopReturns gives it to each loop.
FairStop ==
    /\ WF_vars(Run_start) /\ WF_vars(Run_return)
    /\ WF_vars(SmartLoop(StopCodes))
    /\ WF_vars(ZpoolSteps) /\ SF_vars(checkZpool_end)
    /\ WF_vars(OnlineLoop)
    /\ WF_vars(IoLoop)
    /\ WF_vars(\E i \in DOMAIN netPc : NetLoop(i, StopGateways, StopSpeeds))
    /\ SF_vars(LoopReturns)

SpecStop == InitStop /\ [][NextStop]_vars /\ FairStop

\* ------------------------------------------------- main and its monitors
\* An unrecovered panic in a goroutine ends the process: every goroutine
\* of main stops with it.
Crashed == \E i \in DOMAIN netPc : netPc[i] = "panic"

\* Disk settings of main: the port mapping, and the serial mapping that
\* fails at startup on an appliance without DISK_SERIAL; only the two
\* loops that cannot be switched off.
MainSettings ==
    {[RunDefaults EXCEPT !.MappingMethod = mm, !.CheckSmart = FALSE] :
        mm \in {"ata", "serial"}}

\* Values of CHECK_NETDEV_INTERVAL: the default, zero, a negative number.
MainIntervals == {60, 0, -5}

\* The appliance of main: sda on port 1 and sdb on port 2, all LEDs, no
\* DISK_SERIAL.
MainMachine ==
    OnPool([dmidecode |-> CmdFailed, serialEnv |-> <<>>, enumOk |-> TRUE,
            devMap |-> (AtaKey(1) :> sda) @@ (AtaKey(2) :> sdb),
            leds |-> [l \in {ledMap[i] : i \in 1 .. 8} |-> "ok"],
            nodes |-> {sda, sdb}],
           PoolFailed, <<>>)

\* main has called diskmon.Run and netmon.Run for eth0 and eth1 with the
\* gateway check on; nothing has run yet.
InitMain ==
    /\ ctxDone = FALSE
    /\ \E st \in MainSettings, iv \in MainIntervals :
        /\ RunCalled(DiskConfig(DefaultColors, st), MainMachine)
        /\ MainStarted([NetDefaults EXCEPT !.Enable = TRUE,
                                           !.Interfaces = <<eth0, eth1>>,
                                           !.CheckGatewayConnectivity = TRUE,
                                           !.CheckInterval = iv])
    /\ NoLocks

\* A step of network monitor i while the process lives.
NetStep(i) == ~Crashed /\ NetLoop(i, {"reply"}, StopSpeeds)

\* A step of the disk monitor while the process lives: its startup, the
\* I/O loop, and the return of its loops and of Run.
DiskStep ==
    /\ ~Crashed
    /\ \/ Run_start
       \/ diskOnlineCheckLoop_done
       \/ IoLoop \/ ioMonitorLoop_done
       \/ Run_return

\* The monitors of main, the signal, and a disk that is pulled.
NextMain ==
    \/ ~Crashed /\ Cancel
    \/ ~Crashed /\ EnvRemove
    \/ DiskStep
    \/ \E i \in DOMAIN netPc : NetStep(i)

SpecMain == InitMain /\ [][NextMain]_vars

\* --------------------------------------------- a disk that keeps failing
\* Exit codes of a failing SMART check: one bit, one bit with the standby
\* bit, every bit.
FailCodes == {2, 34, 255}

\* The SMART loop with smartctl failing at every tick, beside the online
\* loop and the pool loop, on two disks either of which can be pulled.
NextFail ==
    \/ EnvRemove
    \/ SmartLoop(FailCodes)
    \/ OnlineLoop
    \/ ZpoolLoop(StopLines)

\* Scheduling: the goroutines of the SMART loop and of the online loop keep
\* running, their tickers keep firing and the commands they run return.
FairFail == WF_vars(SmartLoop(FailCodes)) /\ WF_vars(OnlineLoop)

\* Two registered disks, sda a member of the pool, every failure colour
\* different from the others.
InitFail == InitTwo /\ cfg = DistinctColors /\ zpoolLEDMap # <<>>

SpecFail == InitFail /\ [][NextFail]_vars /\ FairFail

\* ---------------------------------------------------------------- claims
SmartFailString == ColorString(cfg.ColorSmartFail)
ZpoolFailString == ColorString(cfg.ColorZpoolFail)
HealthString    == ColorString(cfg.ColorDiskHealth)
UnavailString   == ColorString(cfg.ColorDiskUnavail)

\* C1: for every exit code R of 0..255 that smartctl returns for a disk the
\* SMART tick found without a failure flag, the tick sets smartFailed and
\* goes on to write the SMART-fail colour exactly when R is neither 0 nor 32
\* (R with bit value 32 cleared is non-zero); for R = 0 and R = 32 the disk
\* table and the LED colours stay as they were.
C1_SmartFailureRule ==
    [][/\ \A r \in 0 .. 255 :
            (pcSmart = "run" /\ checkSMART_run(r)) =>
                /\ disks'[smartCur].smartFailed <=> (r \notin {0, 32})
                /\ (pcSmart' = "write") <=> (r \notin {0, 32})
                /\ (r \in {0, 32}) => (disks' = disks /\ ledColor' = ledColor)
       /\ checkSMART_write =>
            ledColor' = [ledColor EXCEPT ![LedOf(smartCur)] = SmartFailString]
      ]_vars

\* C1 witness: a SMART tick has flagged a disk and written the SMART-fail
\* colour to its LED, and has passed another disk as healthy.
C1_Witness ==
    /\ disks[sda].smartFailed /\ ledColor[disk1] = SmartFailString
    /\ ~disks[sdb].smartFailed /\ ledColor[disk2] = HealthString
    /\ pcSmart = "loop" /\ smartRem = {}

\* C2: once a disk's smartFailed flag is true it is true in every later
\* state, whichever of the four loops or the environment takes the step.
C2_SmartFailedSticky ==
    [][\A d \in DOMAIN disks : disks[d].smartFailed => disks'[d].smartFailed]_vars

\* C2 witness: the disk is flagged SMART-failed while the online loop is in
\* the middle of its check of the same disk and the pool loop is about to
\* act on a report for it.
C2_Witness ==
    /\ disks[sda].smartFailed
    /\ pcOnline = "stat" /\ onlineCur = sda /\ statFile[sda] = NoFile
    /\ pcZpool = "switch" /\ pcIo = "stat"

\* The pool names that resolve to the disk in slot 1.
Slot1PoolNames == {sda, sda1}

\* The LED of disk d shows the pool-fail colour and the pool loop holds a
\* failure report for a pool device of that LED.
PoolFailShown(d) ==
    /\ ledColor[disks[d].led] = ZpoolFailString
    /\ \E z \in faultedLogged : LookupLED(z) = disks[d].led

\* C3: a pool tick that handles a line of a mapped device in state ONLINE,
\* AVAIL or DEGRADED has read the colour of that device's LED, and writes
\* the healthy colour to that LED exactly when the colour read is the
\* pool-fail colour string; for any other colour read it leaves every LED
\* colour as it is.
C3_PoolRecoveryGating ==
    [][/\ (pcZpool = "lines" /\ pcZpool' = "switch") =>
            /\ zLed' = LedOf(StripTrailingDigits(zDev'))
            /\ zColor' = ledColor[zLed']
       /\ (pcZpool = "switch" /\ zState \in {ONLINE, AVAIL, DEGRADED}
           /\ checkZpool_switch) =>
            IF zColor = ZpoolFailString
            THEN ledColor' = [ledColor EXCEPT ![zLed] = HealthString]
            ELSE ledColor' = ledColor
      ]_vars

\* C3 witness: after a failure report for the device, a tick has read the
\* pool-fail colour back for a healthy report and is at the rewrite.
C3_Witness ==
    /\ pcZpool = "switch" /\ zState \in {ONLINE, AVAIL, DEGRADED}
    /\ zColor = ZpoolFailString /\ zDev \in faultedLogged

\* C4: for every colour configuration, the shipped defaults included, a
\* pool tick that reports ONLINE, AVAIL or DEGRADED for the device of a disk
\* that has smartFailed set and whose LED shows the SMART-fail colour (read
\* back and still shown) leaves that LED's colour unchanged.
C4_HealthyPoolKeepsSmartFail ==
    [][\A d \in DOMAIN disks :
            (/\ pcZpool = "switch" /\ zState \in {ONLINE, AVAIL, DEGRADED}
             /\ disks[d].led = zLed /\ disks[d].smartFailed
             /\ zColor = SmartFailString /\ ledColor[zLed] = SmartFailString
             /\ checkZpool_switch)
            => ledColor'[zLed] = ledColor[zLed]
      ]_vars

\* C5: when the pool status arrives, each of its lines that reports a pool
\* device of a slot in state OFFLINE, FAULTED, UNAVAIL, REMOVED or CORRUPT
\* is one the loop does not skip and resolves to that slot's LED and to that
\* state; and the switch for a failure state writes the pool-fail colour to
\* the LED, whatever colour was read back and whatever the disk's flags are.
C5_PoolFailureForcesColour ==
    [][/\ (pcZpool = "cmd" /\ pcZpool' = "lines") =>
            \A dev \in Slot1PoolNames :
                \A st \in {OFFLINE, FAULTED, UNAVAIL, REMOVED, CORRUPT} :
                    /\ ~LineSkipped(StatusLine(dev, st))
                    /\ LookupLED(LineFields(StatusLine(dev, st))[1]) = disk1
                    /\ TrimSpace(LineFields(StatusLine(dev, st))[2]) = st
       /\ (pcZpool = "switch"
           /\ zState \in {OFFLINE, FAULTED, UNAVAIL, REMOVED, CORRUPT}
           /\ checkZpool_switch) =>
            ledColor' = [ledColor EXCEPT ![zLed] = ZpoolFailString]
      ]_vars

\* C5 witness: a failure report is at the switch for a disk flagged
\* SMART-failed whose LED was read back with the SMART-fail colour, which
\* differs from the pool-fail colour.
C5_Witness ==
    /\ pcZpool = "switch" /\ zState \in {OFFLINE, FAULTED, UNAVAIL, REMOVED, CORRUPT}
    /\ disks[sda].smartFailed /\ zColor = SmartFailString
    /\ SmartFailString # ZpoolFailString

\* C6: a SMART tick that comes to a disk whose LED shows the pool-fail
\* colour after a failure report of the pool loop skips that disk: it does
\* not go on to run the SMART check for it.
C6_SmartSkipsPoolFailed ==
    [][\A d \in DOMAIN disks :
            (/\ pcSmart = "loop" /\ PoolFailShown(d)
             /\ checkSMART_read /\ smartRem' = smartRem \ {d})
            => pcSmart' = "loop"
      ]_vars

\* C7: right after the pool loop has handled a report for a disk's device,
\* the disk's zpoolFaulted flag is true if the report was a failure state
\* and false if it was a healthy state.
C7_PoolFaultedTracksReport ==
    [][\A d \in DOMAIN disks :
            (pcZpool = "switch" /\ disks[d].led = zLed /\ checkZpool_switch)
            => /\ (zState \in FailureStates) => disks'[d].zpoolFaulted
               /\ (zState \in HealthyStates) => ~disks'[d].zpoolFaulted
      ]_vars

\* C8: a report in any state that is not one of the five failure states, a
\* state the monitor does not name included, is handled as healthy: the
\* healthy colour is written when the colour read back is the pool-fail
\* colour, and the device's already-logged flag is cleared.
C8_UnnamedStateIsHealthy ==
    [][(pcZpool = "switch" /\ zState \notin FailureStates /\ checkZpool_switch)
        => /\ (zColor = ZpoolFailString) => ledColor'[zLed] = HealthString
           /\ zDev \notin faultedLogged'
      ]_vars

\* C9: an online tick that finds the statistics node of a disk it read as
\* healthy gone sets offline and goes on to write the unavailable colour;
\* offline, once true, is true in every later state; an online tick that
\* comes to an offline disk skips it, its node being back or not; and no
\* step of the online loop changes an LED colour to anything but the
\* unavailable colour.
C9_OfflineSticky ==
    [][/\ (pcOnline = "stat" /\ statFile[onlineCur] = NoFile /\ checkDiskOnline_stat)
            => disks'[onlineCur].offline /\ pcOnline' = "write"
       /\ (pcOnline = "write" /\ checkDiskOnline_write)
            => ledColor' = [ledColor EXCEPT ![LedOf(onlineCur)] = UnavailString]
       /\ \A d \in DOMAIN disks : disks[d].offline => disks'[d].offline
       /\ \A d \in DOMAIN disks :
            (/\ pcOnline = "loop" /\ disks[d].offline
             /\ checkDiskOnline_read /\ onlineRem' = onlineRem \ {d})
            => pcOnline' = "loop"
       /\ \A l \in DOMAIN ledColor :
            (onlineVars' # onlineVars /\ ledColor'[l] # ledColor[l])
            => ledColor'[l] = UnavailString
      ]_vars

\* C9 witness: the disk is offline and shows the unavailable colour, its
\* node is back, and an online tick has just gone through the disk table.
C9_Witness ==
    /\ disks[sda].offline /\ ledColor[disk1] = UnavailString
    /\ statFile[sda] # NoFile
    /\ pcOnline = "loop" /\ onlineRem = {}

\* C10: an I/O tick that reads the statistics of a disk it read as healthy
\* goes on to fire the one-shot blink exactly when the snapshot read differs
\* from the snapshot stored in the disk table (empty at start); it then
\* stores the snapshot read, and the blink writes the shot attribute of the
\* disk's LED; when the two are equal nothing is written.
C10_IoChangeDetection ==
    [][/\ (pcIo = "stat" /\ statFile[ioCur] # NoFile /\ checkIO_stat) =>
            /\ (pcIo' = "shot") <=> (statFile[ioCur] # disks[ioCur].lastStat)
            /\ (pcIo' = "shot") => disks'[ioCur].lastStat = statFile[ioCur]
            /\ (pcIo' # "shot") => (disks' = disks /\ ledShot' = ledShot)
       /\ (pcIo = "shot" /\ checkIO_shot) =>
            ledShot' = [ledShot EXCEPT ![LedOf(ioCur)] = <<"1">>]
      ]_vars

\* C10 witness: a blink was fired on slot 1 and the stored snapshot is the
\* current statistics, and the tick that follows has found no change.
C10_Witness ==
    /\ ledShot[disk1] = <<"1">> /\ disks[sda].lastStat = statFile[sda]
    /\ pcIo = "loop" /\ ioRem = {sdb}

\* C11: the I/O loop never fires the one-shot blink on the LED of a disk
\* that, at the moment of the blink, is flagged SMART-failed, is flagged
\* offline, or shows the pool-fail colour after a failure report of the pool
\* loop.
C11_IoBlinksOnlyGoodDisks ==
    [][(pcIo = "shot" /\ checkIO_shot) =>
            /\ ~disks[ioCur].smartFailed
            /\ ~disks[ioCur].offline
            /\ ~PoolFailShown(ioCur)
      ]_vars

\* C12: no step of a polling loop or of the environment adds, removes or
\* changes an entry of ledToDevice, deviceToLED or zpoolLEDMap, adds or
\* removes a disk of the disk table, or changes a disk entry's device name
\* or LED handle; and the online tick that finds a device's node gone
\* changes only that disk's offline flag and then only that slot's colour.
C12_BindingImmutable ==
    [][/\ ledToDevice' = ledToDevice
       /\ deviceToLED' = deviceToLED
       /\ zpoolLEDMap' = zpoolLEDMap
       /\ DOMAIN disks' = DOMAIN disks
       /\ \A d \in DOMAIN disks :
            /\ disks'[d].device = disks[d].device
            /\ disks'[d].led = disks[d].led
       /\ (pcOnline = "stat" /\ statFile[onlineCur] = NoFile /\ pcOnline' = "write")
            => /\ disks' = [disks EXCEPT ![onlineCur].offline = TRUE]
               /\ ledColor' = ledColor
       /\ (pcOnline = "write" /\ pcOnline' = "loop")
            => /\ disks' = disks
               /\ \A l \in DOMAIN ledColor \ {LedOf(onlineCur)} :
                    ledColor'[l] = ledColor[l]
      ]_vars

\* C12 witness: the disk of slot 2 was pulled, is flagged offline and shows
\* the unavailable colour; slot 1 is untouched and both slots are still
\* bound as at start.
C12_Witness ==
    /\ statFile[sdb] = NoFile /\ disks[sdb].offline
    /\ ledColor[disk2] = UnavailString
    /\ ~disks[sda].offline /\ ledColor[disk1] = HealthString
    /\ deviceToLED = (sda :> disk1) @@ (sdb :> disk2)
    /\ ledToDevice = (disk1 :> sda) @@ (disk2 :> sdb)
    /\ pcOnline = "idle"

\* C13: the LED netdev is written by at most one monitor instance, whatever
\* the interface list is, and no two instances are at a write of it at the
\* same time (the disk monitor writes only the slot LEDs disk1..disk8).
C13_LedOwnedByOneMonitor ==
    /\ Cardinality(netWriters) <= 1
    /\ \A i, j \in DOMAIN netPc :
            (netPc[i] = "color" /\ netPc[j] = "color") => i = j

\* The loops that are at a write of an attribute of LED l: the SMART loop
\* at its colour write, the pool loop at a switch that writes a colour, the
\* online loop at its colour write, the I/O loop at its blink.
LoopsWriting(l) ==
    {w \in {"smart", "zpool", "online", "io"} :
        \/ w = "smart" /\ pcSmart = "write" /\ disks[smartCur].led = l
        \/ /\ w = "zpool" /\ pcZpool = "switch" /\ zLed = l
           /\ \/ zState \in FailureStates
              \/ zState \in HealthyStates /\ zColor = ZpoolFailString
        \/ w = "online" /\ pcOnline = "write" /\ disks[onlineCur].led = l
        \/ w = "io" /\ pcIo = "shot" /\ disks[ioCur].led = l}

\* C14: in every reachable state, for every slot LED, at most one of the
\* SMART, pool, online and I/O loops is at a write to that LED.
C14_OneLoopWritesLed ==
    \A l \in DOMAIN ledColor : Cardinality(LoopsWriting(l)) <= 1

\* C15: a loop that is between Lock and Unlock holds the write lock of its
\* disk, and a loop in its read section holds the read lock; while a disk's
\* write lock is held no other loop holds it for reading, and no two loops
\* are in the write section of the same disk; smartFailed, offline and
\* lastStat of a disk change only in a step of the loop that holds that
\* disk's write lock; and a loop asking for the lock of a disk that is free
\* can take it whatever the locks of the other disks are.
C15_PerDiskLock ==
    /\ [](/\ \A L \in LockLoops :
                /\ lkPc[L] \in {"locked", "written"} => muW[lkDev[L]] = L
                /\ lkPc[L] = "rlocked" => L \in muR[lkDev[L]]
          /\ \A d \in DOMAIN disks : muW[d] # "none" => muR[d] = {}
          /\ \A L1, L2 \in LockLoops :
                (/\ lkPc[L1] \in {"locked", "written"}
                 /\ lkPc[L2] \in {"locked", "written"}
                 /\ lkDev[L1] = lkDev[L2]) => L1 = L2
          /\ \A L \in LockLoops :
                /\ (/\ lkPc[L] = "wantlock"
                    /\ muW[lkDev[L]] = "none" /\ muR[lkDev[L]] = {})
                   => ENABLED lock_Lock(L)
                /\ \A d \in DOMAIN disks :
                    (lkPc[L] = "idle" /\ muW[d] = "none") => ENABLED lock_RLock(L, d))
    /\ [][\A d \in DOMAIN disks :
            disks'[d] # disks[d] =>
                /\ muW[d] \in LockLoops
                /\ lkPc[muW[d]] = "locked" /\ lkPc'[muW[d]] = "written"
         ]_vars

\* C15 witness: the SMART loop holds the lock of sda and has written its
\* flag, the online loop waits for that lock, and the I/O loop is in the
\* write section of sdb at the same time.
C15_Witness ==
    /\ lkPc["smart"] = "written" /\ lkDev["smart"] = sda /\ disks[sda].smartFailed
    /\ lkPc["online"] = "wantlock" /\ lkDev["online"] = sda
    /\ lkPc["io"] = "locked" /\ lkDev["io"] = sdb /\ muW[sdb] = "io"

\* No polling loop of the disk monitor has been started.
NoLoopStarted ==
    pcSmart = "off" /\ pcZpool = "off" /\ pcOnline = "off" /\ pcIo = "off"

\* C18: Run called with Enable = false returns an error at once, whatever
\* the other settings are, and starts no polling loop.
C18_DisabledRunFails ==
    [][(runPc = "start" /\ ~cfg.Enable /\ Run_start) =>
            /\ runPc' = "returned" /\ runRet' = "error"
            /\ NoLoopStarted'
      ]_vars

\* C19: Run called in serial mode with DISK_SERIAL unset or empty returns
\* an error from initializeDisks: no attribute and no colour of any LED has
\* been written, the disk table and the maps are empty, and no loop has
\* been started, then and ever after.
C19_SerialWithoutListFails ==
    /\ [][(/\ runPc = "start" /\ cfg.MappingMethod = "serial"
            /\ machine.serialEnv = <<>> /\ Run_start) =>
                /\ runPc' = "returned" /\ runRet' = "error"
                /\ \A l \in DOMAIN ledInit' :
                        ledInit'[l] = LedUntouched /\ ledColor'[l] = <<>>
                /\ disks' = <<>> /\ ledToDevice' = <<>> /\ deviceToLED' = <<>>
                /\ NoLoopStarted'
         ]_vars
    /\ []((runPc = "returned" /\ runRet = "error") =>
            /\ NoLoopStarted /\ disks = <<>>
            /\ \A l \in DOMAIN ledInit : ledInit[l] = LedUntouched)

\* C19 witness: Run has returned the error in serial mode without a serial
\* list on an appliance where lsblk works and lists both disks and all
\* eight LEDs exist and take writes.
C19_Witness ==
    /\ runPc = "returned" /\ runRet = "error"
    /\ cfg.MappingMethod = "serial" /\ machine.serialEnv = <<>>
    /\ machine.enumOk /\ machine.devMap # <<>>
    /\ machine.leds = [l \in {ledMap[i] : i \in 1 .. 8} |-> "ok"]
    /\ machine.nodes = {sda, sdb}

\* The model string starts with the prefix DXP6800.
IsDXP6800 ==
    /\ machine.dmidecode # CmdFailed
    /\ Len(TrimSpace(machine.dmidecode)) >= 7
    /\ SubSeq(TrimSpace(machine.dmidecode), 1, 7) = DXP6800

\* Ports of slots 1..6 on the reordered models.
ReorderedPorts == <<3, 4, 5, 6, 1, 2>>

\* C20: once Run has initialized the monitor in ata or hctl mode, the slot
\* keys are, on a model whose name starts with DXP6800, those of ports
\* 3,4,5,6,1,2 for slots 1..6 (addresses 2,3,4,5,0,1 followed by :0:0:0),
\* and on any other model, or without a model name, those of port i
\* (address i-1) for slots 1..8; and a slot LED is bound to a device only
\* if that device is the one enumerated under the slot's key.
C20_ModelSlotOrder ==
    (runPc = "running" /\ cfg.MappingMethod \in {"ata", "hctl"}) =>
        /\ mapping =
            IF IsDXP6800
            THEN [i \in 1 .. 6 |->
                    IF cfg.MappingMethod = "ata"
                    THEN <<"a", "t", "a">> \o IntToStr(ReorderedPorts[i])
                    ELSE IntToStr(ReorderedPorts[i] - 1)
                         \o <<":", "0", ":", "0", ":", "0">>]
            ELSE [i \in 1 .. 8 |->
                    IF cfg.MappingMethod = "ata"
                    THEN <<"a", "t", "a">> \o IntToStr(i)
                    ELSE IntToStr(i - 1) \o <<":", "0", ":", "0", ":", "0">>]
        /\ \A i \in DOMAIN mapping :
                ledMap[i] \in DOMAIN ledToDevice =>
                    /\ mapping[i] \in DOMAIN machine.devMap
                    /\ ledToDevice[ledMap[i]] = machine.devMap[mapping[i]]

\* C20 witness: on a DXP6800 in ata mode the disk on port 3 is bound to
\* slot 1 and the disk on port 1 to slot 5.
C20_Witness ==
    /\ runPc = "running" /\ cfg.MappingMethod = "ata" /\ IsDXP6800
    /\ ledMap[1] \in DOMAIN ledToDevice /\ ledToDevice[ledMap[1]] = sdb
    /\ ledMap[5] \in DOMAIN ledToDevice /\ ledToDevice[ledMap[5]] = sda

\* Every loop Run started has returned and Run has returned nil.
DiskMonitorStopped ==
    /\ runPc = "returned" /\ runRet = "nil"
    /\ \A pc \in {pcSmart, pcZpool, pcOnline, pcIo} : pc \in {"off", "exit"}

\* C16: once the context is cancelled, before or after Run has started its
\* loops and for every subset of the optional loops, every loop that was
\* started exits and diskmon.Run returns nil; and a network monitor that
\* is in its polling loop returns nil.
C16_CancellationTerminates ==
    /\ ctxDone ~> DiskMonitorStopped
    /\ \A i \in {1} :
        (ctxDone /\ i \in DOMAIN netPc /\ netPc[i] \in {"select", "color"})
            ~> (i \in DOMAIN netPc /\ netPc[i] = "done" /\ netRet[i] = "nil")

\* C16 witness: after cancellation Run has returned nil with its loops
\* exited, having seen the disk go offline, and the network monitor has
\* returned nil from its polling loop.
C16_Witness ==
    /\ ctxDone /\ DiskMonitorStopped
    /\ pcOnline = "exit" /\ pcIo = "exit"
    /\ sda \in DOMAIN disks /\ disks[sda].offline
    /\ 1 \in DOMAIN netPc /\ netPc[1] = "done" /\ netRet[1] = "nil"
    /\ 1 \in netWriters

\* The flags of the disks, without the I/O counters last read.
DiskFlags ==
    [d \in DOMAIN disks |-> <<disks[d].smartFailed, disks[d].zpoolFaulted,
                              disks[d].offline>>]

\* C17: once the context is cancelled no polling loop writes an LED or
\* changes a flag of a disk: the disk loops Run has started leave the
\* slot LEDs and the flags as they are, and a network monitor past its
\* initialization leaves the netdev LED as it is.
C17_NoWriteAfterCancel ==
    [][ctxDone =>
          /\ runPc = "running" =>
                /\ ledColor' = ledColor /\ ledShot' = ledShot
                /\ DiskFlags' = DiskFlags
          /\ (1 \in DOMAIN netPc /\ netPc[1] # "start") => netLed' = netLed]_vars

\* initializeDisks has returned nil.
Initialized == runPc = "running" \/ (runPc = "returned" /\ runRet = "nil")

\* C21: after initialization every existing, writable slot LED that no
\* device is bound to is off with no trigger (brightness 0, trigger none)
\* and no entry of the disk table uses it, whatever the mapping method and
\* the number of slot keys.
C21_UnboundLedOff ==
    Initialized =>
        \A l \in DOMAIN machine.leds :
            (machine.leds[l] = "ok" /\ l \notin DOMAIN ledToDevice) =>
                /\ ledInit[l].brightness = IntToStr(0)
                /\ ledInit[l].trigger = "none"
                /\ \A d \in DOMAIN disks : disks[d].led # l

\* Slot i's LED exists and takes the writes, its key maps to device d as
\* enumerateDisks found it, and d has a statistics node.
SlotHasDisk(i, d) ==
    /\ ledMap[i] \in DOMAIN machine.leds /\ machine.leds[ledMap[i]] = "ok"
    /\ i <= Len(mapping)
    /\ mapping[i] \in DOMAIN machine.devMap
    /\ machine.devMap[mapping[i]] = d
    /\ d \in machine.nodes

\* C22: after a successful initialization the disk table holds the pair
\* (slot LED, device) exactly when the slot's LED exists (and takes the
\* writes), the slot's key maps to a discovered device and the device has
\* a statistics node; every registered LED has trigger oneshot, invert 1,
\* delay_on 100, delay_off 100, the healthy colour and the configured
\* brightness; an LED that does not exist is never written and slots
\* after it are still processed.
C22_TableMatchesSlots ==
    Initialized =>
        /\ \A i \in 1 .. 8 : \A d \in {sda, sdb} :
              (d \in DOMAIN disks /\ disks[d].led = ledMap[i]) <=> SlotHasDisk(i, d)
        /\ \A d \in DOMAIN disks :
              /\ ledInit[disks[d].led] =
                    [trigger |-> "oneshot", invert |-> <<"1">>,
                     delay_on |-> <<"1", "0", "0">>,
                     delay_off |-> <<"1", "0", "0">>,
                     brightness |-> IntToStr(cfg.BrightnessDiskLeds)]
              /\ ledColor[disks[d].led] = ColorString(cfg.ColorDiskHealth)
        /\ DOMAIN ledInit = DOMAIN machine.leds
        /\ DOMAIN ledColor = DOMAIN machine.leds

\* The configuration asks for none of the three network checks.
NoNetCheck ==
    /\ ~ncfg.CheckGatewayConnectivity /\ ~ncfg.CheckLinkSpeed
    /\ ~ncfg.CheckLinkSpeedDynamic

\* C23: with none of the gateway, static and dynamic link-speed checks
\* enabled, a network monitor that has run has returned nil, whether or
\* not the LED exists, it never is in its polling loop, and no attribute
\* of the LED has been written.
C23_NoCheckNoOp ==
    NoNetCheck =>
        /\ netLed = NetLedUntouched /\ netWriters = {}
        /\ \A i \in DOMAIN netPc :
              /\ netPc[i] \in {"start", "done"}
              /\ netPc[i] = "done" => netRet[i] = "nil"

\* C23 witness: two monitors without any check have both returned nil.
C23_Witness ==
    /\ NoNetCheck /\ DOMAIN netPc = {1, 2}
    /\ \A i \in DOMAIN netPc : netPc[i] = "done" /\ netRet[i] = "nil"
    /\ netLed = NetLedUntouched

\* C24: in a tick with the gateway check enabled in which no default
\* gateway was found or the ping failed, the colour written is the
\* configured gateway-unreachable colour, whatever the link speed and the
\* static and dynamic link-speed settings.
C24_GatewayOverride ==
    [][\A i \in {1, 2} :
          (/\ i \in DOMAIN netPc
           /\ netPc[i] = "color" /\ netPc'[i] = "select"
           /\ ncfg.CheckGatewayConnectivity
           /\ netProbe[i] \in {"nogateway", "noreply"})
          => netLed'.color = ColorString(ncfg.ColorGatewayUnreachable)]_vars

\* C24 witness: with the dynamic link-speed colour enabled and the link at
\* 2000, a tick that found no gateway has written the unreachable colour.
C24_Witness ==
    /\ 1 \in DOMAIN netPc /\ netPc[1] = "select"
    /\ ncfg.CheckGatewayConnectivity /\ ncfg.CheckLinkSpeedDynamic
    /\ netProbe[1] = "nogateway"
    /\ netSpeed[1] = <<"2", "0", "0", "0", "\n">>
    /\ netLed.color = ColorString(ncfg.ColorGatewayUnreachable)

\* The colour a tick owes to its own inputs: the result of its gateway
\* check, when the check is enabled, and the speed attribute it reads.
TickColor(c, probe, data) ==
    IF c.CheckGatewayConnectivity /\ probe # "reply"
    THEN c.ColorGatewayUnreachable
    ELSE getNormalColor(c, data)

\* C25: the colour a tick writes depends only on that tick's gateway
\* result and speed reading: it is the normal colour whenever this tick's
\* gateway check succeeded, whatever earlier ticks found, and with the
\* gateway check disabled it is always the normal colour.
C25_NoLatchedFailure ==
    [][\A i \in {1, 2} :
          (i \in DOMAIN netPc /\ netPc[i] = "color" /\ netPc'[i] = "select")
          => netLed'.color =
                ColorString(TickColor(ncfg, netProbe[i], netSpeed'[i]))]_vars

\* C25 witness: the only monitor, without link-speed colours, has left
\* the LED at the unreachable colour in an earlier tick, and in the
\* current tick its gateway check has succeeded.
C25_Witness ==
    /\ DOMAIN netPc = {1} /\ netPc[1] = "color"
    /\ ncfg.CheckGatewayConnectivity
    /\ ~ncfg.CheckLinkSpeed /\ ~ncfg.CheckLinkSpeedDynamic
    /\ netLed.color = ColorString(ncfg.ColorGatewayUnreachable)
    /\ netProbe[1] = "reply" /\ netGw[1]

\* This tick's gateway check, if enabled, found the gateway reachable.
GatewayFine(i) == ~ncfg.CheckGatewayConnectivity \/ netProbe[i] = "reply"

\* C26: when the gateway is not unreachable the colour written is the
\* gradient colour if the dynamic mode is enabled, also when the static
\* mode is enabled too; otherwise the tier colour of the speed if the
\* static mode is enabled; otherwise the flat normal colour.
C26_NormalColorPriority ==
    [][(netPc[1] = "color" /\ netPc'[1] = "select" /\ GatewayFine(1))
       => netLed'.color =
            ColorString(
                IF ncfg.CheckLinkSpeedDynamic
                THEN getDynamicColor(ncfg, netSpeed'[1])
                ELSE IF ncfg.CheckLinkSpeed
                THEN getLinkSpeedColor(ncfg, netSpeed'[1])
                ELSE ncfg.ColorNormal)]_vars

\* C26 witness: both modes enabled, a colour configured for the 1000 tier,
\* the link at 1000: the LED shows the gradient colour, which differs
\* from the tier colour and from the flat colour.
C26_Witness ==
    /\ netPc[1] = "select" /\ GatewayFine(1)
    /\ ncfg.CheckLinkSpeedDynamic /\ ncfg.CheckLinkSpeed
    /\ ncfg.ColorLink1000 # Nil
    /\ netSpeed[1] = SpeedFile(1000)
    /\ netLed.color = ColorString(getDynamicColor(ncfg, netSpeed[1]))
    /\ netLed.color # ColorString(ncfg.ColorLink1000)
    /\ netLed.color # ColorString(ncfg.ColorNormal)

\* The tier colours a speed tries in order, and the colour it ends with
\* when none of them is configured.
TierChain(speed) ==
    CASE speed = 100 -> <<"ColorLink100">>
      [] speed = 1000 -> <<"ColorLink1000">>
      [] speed = 2000 -> <<"ColorLink2000">>
      [] speed = 2500 -> <<"ColorLink2500">>
      [] speed = 5000 -> <<"ColorLink5000", "ColorLink10000">>
      [] speed = 10000 -> <<"ColorLink10000", "ColorLink5000">>
      [] OTHER -> <<>>

TierLast(speed) ==
    IF speed \in {2000, 5000, 10000} THEN "ColorLinkPurpleDefault" ELSE "ColorNormal"

TierExpected(c, data) ==
    LET r == getLinkSpeed(data)
        set == {k \in DOMAIN TierChain(r.val) : c[TierChain(r.val)[k]] # Nil}
    IN  IF ~r.ok THEN c.ColorNormal
        ELSE IF set = {} THEN c[TierLast(r.val)]
        ELSE c[TierChain(r.val)[CHOOSE k \in set : \A j \in set : k <= j]]

\* C27: with the static mode alone, for every speed and every subset of
\* configured tier colours the colour written is the speed's tier colour
\* if configured; else for 100, 1000, 2500 the flat normal colour, for
\* 2000 the purple default, for 5000 the 10000 colour and for 10000 the
\* 5000 colour if configured, else the purple default; for any other
\* speed and for a failed read the flat normal colour.
C27_StaticTierLookup ==
    [][(/\ netPc[1] = "color" /\ netPc'[1] = "select" /\ GatewayFine(1)
        /\ ncfg.CheckLinkSpeed /\ ~ncfg.CheckLinkSpeedDynamic)
       => netLed'.color = ColorString(TierExpected(ncfg, netSpeed'[1]))]_vars

\* C27 witness: the link at 5000 with no colour for 5000 but one for
\* 10000: the LED shows the 10000 colour.
C27_Witness ==
    /\ netPc[1] = "select" /\ GatewayFine(1)
    /\ ncfg.CheckLinkSpeed /\ ~ncfg.CheckLinkSpeedDynamic
    /\ ncfg.ColorLink5000 = Nil /\ ncfg.ColorLink10000 # Nil
    /\ netSpeed[1] = SpeedFile(5000)
    /\ netLed.color = ColorString(TierColors.ColorLink10000)

\* One channel of the gradient in exact arithmetic: low + p * (high - low)
\* truncated, with p = num / den clamped to [0, 1] and den # 0.  The
\* value lies between the two end colours, so truncation is the floor.
GradientExactChannel(low, high, num, den) ==
    LET n == IF den > 0 THEN num ELSE 0 - num
        d == IF den > 0 THEN den ELSE 0 - den
    IN  IF n <= 0 THEN low
        ELSE IF n >= d THEN high
        ELSE (low * d + n * (high - low)) \div d

\* The gradient colour the description gives for a speed attribute.
GradientExact(c, data) ==
    LET r == getLinkSpeed(data)
        lo == c.CheckLinkSpeedDynamicSpeedLow
        hi == c.CheckLinkSpeedDynamicSpeedHigh
        cl == c.CheckLinkSpeedDynamicColorLow
        ch == c.CheckLinkSpeedDynamicColorHigh
    IN  IF ~r.ok \/ hi = lo THEN c.ColorNormal
        ELSE RGB(GradientExactChannel(cl.R, ch.R, r.val - lo, hi - lo),
                 GradientExactChannel(cl.G, ch.G, r.val - lo, hi - lo),
                 GradientExactChannel(cl.B, ch.B, r.val - lo, hi - lo))

\* C28: with the dynamic mode enabled and the gateway not unreachable,
\* every channel of the colour written is lowColor + p * (highColor -
\* lowColor) truncated to an integer, p being (speed - low) / (high - low)
\* clamped to [0, 1]; with equal thresholds or an unreadable speed the
\* colour written is the flat normal colour.
C28_DynamicGradient ==
    [][(/\ netPc[1] = "color" /\ netPc'[1] = "select" /\ GatewayFine(1)
        /\ ncfg.CheckLinkSpeedDynamic)
       => netLed'.color = ColorString(GradientExact(ncfg, netSpeed'[1]))]_vars

\* The number of whitespace-separated tokens of a text: the places where
\* a character that is no white space starts the text or follows white
\* space.
TokenCount(s) ==
    Cardinality({i \in DOMAIN s :
                    ~IsSpace(s[i]) /\ (i = 1 \/ IsSpace(s[i - 1]))})

White == RGB(255, 255, 255)

\* C29: every colour text that does not consist of exactly three
\* whitespace-separated tokens (fewer, more, none, the empty text) is
\* parsed to white, 255 255 255.
C29_NotThreeTokensIsWhite ==
    (rgbParsed # Nil /\ TokenCount(rgbText) # 3) => rgbParsed = White

\* C29 witness: a text of four tokens, none of them 255, has been parsed
\* to white.
C29_Witness ==
    /\ rgbText = <<"0", " ", "6", "4", " ", "0", " ", "6", "4">>
    /\ rgbParsed = White

\* A decimal integer: an optional sign and one or more digits.
IsDecimal(t) ==
    LET digits == IF t # <<>> /\ t[1] \in {"+", "-"} THEN Tail(t) ELSE t
    IN  digits # <<>> /\ \A i \in DOMAIN digits : IsDigit(digits[i])

\* C30: a colour text of three whitespace-separated tokens of which at
\* least one is no decimal integer is parsed to white, 255 255 255,
\* whichever of the three tokens is the bad one.
C30_BadTokenIsWhite ==
    (/\ rgbParsed # Nil /\ TokenCount(rgbText) = 3
     /\ \E k \in 1 .. 3 : ~IsDecimal(Fields(rgbText)[k]))
    => rgbParsed = White

\* Channel values tried in the round trip: inside 0 .. 255, below and
\* above.
ColorValues == {0, 64, 255, 300, -5}

\* C31: for integers r, g, b, also outside 0 .. 255, the text "r g b"
\* is parsed to RGB{r, g, b}, formatting that colour gives the text
\* again, and once the colour is set on an LED, reading the LED's colour
\* attribute returns exactly the text.
C31_ColorRoundTrip ==
    (rgbParsed # Nil /\ TokenCount(rgbText) = 3) =>
        \A r \in ColorValues, g \in ColorValues, b \in ColorValues :
            rgbText = Sprintf3(r, g, b)
            => /\ rgbParsed = RGB(r, g, b)
               /\ ColorString(rgbParsed) = rgbText
               /\ ledColor[disk1] # <<>> => ReadColor(disk1) = rgbText

\* C31 witness: the text "300 -5 0" has been parsed and set on the LED,
\* and the colour attribute reads "300 -5 0".
C31_Witness ==
    /\ rgbText = <<"3", "0", "0", " ", "-", "5", " ", "0">>
    /\ rgbParsed = RGB(300, -5, 0)
    /\ ReadColor(disk1) = rgbText

\* The device name a pool status line starts with.
PoolName(line) == Fields(TrimSpace(line))[1]

\* C32: when Run builds the pool map, every pool device whose name
\* starts with dm and whose first listed slave is a monitored disk is a
\* key of the map, and its LED is that disk's LED.
C32_MapperResolvedToSlave ==
    [][(runPc = "start" /\ runPc' = "running" /\ cfg.CheckZpool
        /\ machine.zpool # PoolFailed)
       => \A k \in DOMAIN machine.zpool :
            LET name == PoolName(machine.zpool[k])
            IN  (/\ HasPrefix(name, <<"d", "m">>)
                 /\ name \in DOMAIN machine.slaves
                 /\ machine.slaves[name][1] \in DOMAIN deviceToLED')
                => /\ name \in DOMAIN zpoolLEDMap'
                   /\ zpoolLEDMap'[name] = deviceToLED'[machine.slaves[name][1]]]_vars

\* Network monitor i is between its start and its return.
NetAlive(i) == netPc[i] \in {"start", "select", "color"}

\* Network monitor i has failed: Run has returned an error or has
\* panicked.
NetFailed(i) ==
    \/ netPc[i] = "done" /\ netRet[i] = "error"
    \/ netPc[i] = "panic"

\* The disk monitor has failed at startup.
DiskFailed == runPc = "returned" /\ runRet = "error"

\* C33: a disk monitor that fails at startup does not end the process or
\* keep a network monitor from starting and running; a network monitor
\* that fails stops neither the disk monitor nor another network
\* monitor; and within a tick of the I/O loop a disk whose statistics
\* cannot be read is passed over while the disks still to come are
\* kept.
C33_FailureContained ==
    /\ [](DiskFailed => \A j \in DOMAIN netPc : NetAlive(j) => ENABLED NetStep(j))
    /\ [](\A i \in DOMAIN netPc : NetFailed(i) =>
            /\ \A j \in DOMAIN netPc \ {i} : NetAlive(j) => ENABLED NetStep(j)
            /\ (runPc = "start" \/ (runPc = "running" /\ pcIo # "exit"))
                    => ENABLED DiskStep)
    /\ [][(pcIo = "stat" /\ statFile[ioCur] = NoFile /\ pcIo' # "stat")
          => pcIo' = "loop" /\ ioRem' = ioRem]_vars

\* The period, in milliseconds, a loop is to tick with: its configured
\* interval when greater than zero, else 360 s for SMART, 5 s for the
\* pool, 5 s for the online check and 0.1 s for I/O.
ExpectedPeriod(loop) ==
    LET configured == CASE loop = "smart"  -> cfg.CheckSmartInterval * 1000
                        [] loop = "zpool"  -> cfg.CheckZpoolInterval * 1000
                        [] loop = "online" -> cfg.CheckDiskOnlineInterval * 1000
                        [] loop = "io"     -> cfg.LedRefreshInterval
        default == CASE loop = "smart"  -> 360000
                     [] loop = "zpool"  -> 5000
                     [] loop = "online" -> 5000
                     [] loop = "io"     -> 100
    IN  IF configured > 0 THEN configured ELSE default

\* C34: once Run has started its loops, each of the four disk loops has
\* a ticker whose period is the configured interval when that is greater
\* than zero and the loop's fixed default otherwise, so every loop has a
\* positive period and runs.
C34_LoopPeriods ==
    (runPc = "running" /\ cfg.CheckSmart /\ cfg.CheckZpool) =>
        /\ DOMAIN ticker = {"smart", "zpool", "online", "io"}
        /\ \A loop \in DOMAIN ticker :
                ticker[loop] = ExpectedPeriod(loop) /\ ticker[loop] > 0
        /\ \A pc \in {pcSmart, pcZpool, pcOnline, pcIo} : pc \in {"idle", "exit"}

\* C34 witness: Run has started with a SMART interval of zero, a negative
\* pool interval, an online interval of 180 s and an I/O interval of
\* zero; the loops tick every 360 s, 5 s, 180 s and 0.1 s.
C34_Witness ==
    /\ runPc = "running"
    /\ cfg.CheckSmartInterval = 0 /\ cfg.CheckZpoolInterval = -1
    /\ cfg.CheckDiskOnlineInterval = 180 /\ cfg.LedRefreshInterval = 0
    /\ ticker = [smart |-> 360000, zpool |-> 5000, online |-> 180000, io |-> 100]

\* C35: a pool member that stays in a failure state is logged once, not on
\* every tick: no device ever has more than one failure entry since its last
\* healthy report, the first failure report after a healthy one (or after the
\* loop started) is logged, and a healthy report clears the device so that
\* the next failure is logged again.
C35_LoggedOncePerFailure ==
    /\ [](\A d \in DOMAIN failLog : failLog[d] <= 1)
    /\ [][ /\ pcZpool = "switch" /\ pcZpool' = "lines"
           /\ zState \in FailureStates
           /\ LogCount(failLog, zDev) = 0
           => LogCount(failLog', zDev) = 1 ]_vars
    /\ [][ /\ pcZpool = "switch" /\ pcZpool' = "lines"
           /\ zState \in HealthyStates
           => /\ LogCount(failLog', zDev) = 0
              /\ zDev \notin faultedLogged' ]_vars

\* A device logged once is reported in a failure state again.
C35_Witness ==
    /\ pcZpool = "switch"
    /\ zState \in FailureStates
    /\ zDev \in faultedLogged
    /\ LogCount(failLog, zDev) = 1


\* C36: a tick of the pool loop whose status command fails changes no LED
\* colour, no disk flag and no logged flag, and leaves nothing behind for the
\* next tick: the loop is back at its ticker with no line in hand, the next
\* tick can start, and its command can succeed or fail again.
C36_FailedCommandOwnTick ==
    /\ [][ pcZpool = "cmd" /\ pcZpool' = "idle"
           => /\ ledColor' = ledColor
              /\ disks' = disks
              /\ faultedLogged' = faultedLogged
              /\ failLog' = failLog
              /\ zDev' = <<>> /\ zState' = <<>> /\ zLed' = <<>>
              /\ zColor' = <<>> ]_vars
    /\ [](pcZpool = "idle" => ENABLED checkZpool_begin)
    /\ [](pcZpool = "cmd" => /\ ENABLED checkZpool_output
                             /\ ENABLED checkZpool_fail
                             /\ zDev = <<>> /\ zState = <<>>)

\* The command is running while a device is logged as failed and its LED
\* shows the pool-fail colour.
C36_Witness ==
    /\ pcZpool = "cmd"
    /\ faultedLogged # {}
    /\ \E l \in DOMAIN ledColor : ledColor[l] = ColorString(cfg.ColorZpoolFail)


\* C37: no disk is flagged both smartFailed and offline, whatever the order
\* in which the steps of the SMART loop and of the online loop are taken.
C37_SingleFailureFlag ==
    \A d \in DOMAIN disks : ~(disks[d].smartFailed /\ disks[d].offline)


\* C38: after a successful initialization ledToDevice and deviceToLED are
\* inverse bijections (no device under two LEDs, no LED under two devices)
\* and the keys of the disk table are exactly the devices in them, whatever
\* the mapping method and the list of slot keys.
C38_MapsInverse ==
    Initialized =>
        /\ \A l \in DOMAIN ledToDevice :
              /\ ledToDevice[l] \in DOMAIN deviceToLED
              /\ deviceToLED[ledToDevice[l]] = l
        /\ \A d \in DOMAIN deviceToLED :
              /\ deviceToLED[d] \in DOMAIN ledToDevice
              /\ ledToDevice[deviceToLED[d]] = d
        /\ DOMAIN disks = DOMAIN deviceToLED


\* C39: a network monitor never fails when it creates its ticker: whatever
\* the configured check interval, a monitor that has passed its startup is
\* in its polling loop with a positive period and has not panicked.
C39_NetTickerPositive ==
    \A i \in DOMAIN netPc :
        /\ netPc[i] # "panic"
        /\ netPc[i] \notin {"start", "done"} => ncfg.CheckInterval > 0


\* C40: with smartctl returning a failing code at every tick and the loops
\* scheduled fairly, every registered disk sooner or later is flagged
\* smartFailed with the SMART-fail colour on its LED, unless the online
\* loop has flagged it offline first.
C40_SmartFailureShown ==
    \A d \in {sda, sdb} :
        <>(\/ disks[d].offline
           \/ /\ disks[d].smartFailed
              /\ ledColor[disks[d].led] = SmartFailString)

\* One disk shows its SMART failure and is not offline while the other was
\* pulled and flagged offline before its SMART check.
C40_Witness ==
    /\ disks[sda].smartFailed /\ ~disks[sda].offline
    /\ ledColor[disks[sda].led] = SmartFailString
    /\ disks[sdb].offline /\ ~disks[sdb].smartFailed

====
